---------------------------- MODULE Spec2Model ----------------------------
(***************************************************************************)
(* A model of gmusicapi_wrapper's song reconciliation, filtering, metadata  *)
(* normalization and filepath template utilities                           *)
(* (gmusicapi_wrapper/utils.py).                                           *)
(*                                                                         *)
(* Python strings are sequences of one-character strings.  A metadata      *)
(* value is a record [t, s, l]: t is its Python type ("str", "int" or      *)
(* "list"), s the text of a str or the decimal digits of an int, l the     *)
(* elements of a list (each the text of a str).                            *)
(***************************************************************************)
EXTENDS Integers, Sequences, FiniteSets, TLC

VARIABLES
    src_songs,       \* compare_song_collections: the src_songs argument
    dst_songs,       \* compare_song_collections: the dst_songs argument
    cmp_pc,          \* "call" before compare_song_collections runs, "done" after
    cmp_out,         \* its outcome: [raised, value]
    flt_op,          \* the filter operation called: filter_google_songs or
                     \* filter_local_songs
    songs,           \* its songs (filter_google_songs) or filepaths argument
    include_filters, \* its include_filters argument; None is the empty list
    exclude_filters, \* its exclude_filters argument; None is the empty list
    all_includes,    \* its all_includes argument
    all_excludes,    \* its all_excludes argument
    flt_pc,          \* "call" before the filter operation runs, "done" after
    flt_out,         \* its outcome: [raised, matched_songs, filtered_songs]
    nrm_metadata,    \* _normalize_metadata: the text of its metadata argument
    nrm_pc,          \* "call" before it runs, "once" after, "twice" after it
                     \* ran on its own result
    nrm_once,        \* _normalize_metadata(metadata)
    nrm_twice,       \* _normalize_metadata(_normalize_metadata(metadata))
    tpl_template,    \* template_to_filepath: its template argument
    tpl_is_dict,     \* whether its metadata argument is a dict (or else
                     \* mutagen metadata, whose values are lists)
    tpl_given,       \* the metadata object as the caller first passed it
    tpl_metadata,    \* the caller's metadata object now
    tpl_out,         \* the outcomes of the calls made so far with that
                     \* template and metadata object: each [raised, value]
    ggs_args,        \* get_google_songs: its arguments include_filters,
                     \* exclude_filters, all_includes, all_excludes, uploaded,
                     \* purchased
    ggs_library,     \* the songs the remote client has: uploaded, purchased,
                     \* and the request it fails on (fails)
    ggs_pc,          \* "call" before get_google_songs runs, "done" after
    ggs_out,         \* its outcome: [error, requests, matched_songs,
                     \* filtered_songs]
    upl_args,        \* upload: its arguments filepaths and delete_on_success
    upl_remote,      \* what the remote client answers to the upload of each
                     \* file
    upl_filenum,     \* the files of filepaths that upload has taken
    upl_results,     \* its results list
    upl_files,       \* the local files that exist
    upl_pc,          \* "idle", "loop" in the loop over the files, "returned"
                     \* after return results, or the exception that left it
    dl_args,         \* download: its arguments songs and template
    dl_remote,       \* whether the remote client fails the download of each
                     \* song
    dl_template,     \* the variable template of _download
    dl_songnum,      \* the songs download has taken
    dl_results,      \* its results list
    dl_pc,           \* "idle", "loop" in the loop over the songs, "returned"
                     \* after return results, or the exception that left it
    exf_args,        \* exclude_filepaths: its arguments filepaths (a list or
                     \* a str) and exclude_patterns (a list or None)
    exf_pc,          \* "call" before exclude_filepaths runs, "done" after
    exf_out,         \* its outcome: [raised, included, excluded]
    lgn_args,        \* MusicManagerWrapper.login: its arguments
                     \* oauth_filename and uploader_id
    lgn_authenticated, \* whether the remote client is authenticated
    lgn_calls,       \* the calls login has made to the remote client, each
                     \* with its outcome
    lgn_pc,          \* "idle", or the next step of login: "login", "oauth",
                     \* "login_again", "check", "returned"
    lgn_out          \* what login returned: "True" or "False" ("none"
                     \* before it returns)

cmp_vars == <<src_songs, dst_songs, cmp_pc, cmp_out>>
flt_vars ==
    <<flt_op, songs, include_filters, exclude_filters, all_includes,
      all_excludes, flt_pc, flt_out>>
nrm_vars == <<nrm_metadata, nrm_pc, nrm_once, nrm_twice>>
tpl_vars == <<tpl_template, tpl_is_dict, tpl_given, tpl_metadata, tpl_out>>
ggs_vars == <<ggs_args, ggs_library, ggs_pc, ggs_out>>
upl_vars ==
    <<upl_args, upl_remote, upl_filenum, upl_results, upl_files, upl_pc>>
dl_vars == <<dl_args, dl_remote, dl_template, dl_songnum, dl_results, dl_pc>>
exf_vars == <<exf_args, exf_pc, exf_out>>
lgn_vars == <<lgn_args, lgn_authenticated, lgn_calls, lgn_pc, lgn_out>>
vars ==
    <<cmp_vars, flt_vars, nrm_vars, tpl_vars, ggs_vars, upl_vars, dl_vars,
      exf_vars, lgn_vars>>

-----------------------------------------------------------------------------
(* Bounds of the model.                                                    *)

\* The longest song collection passed to an operation.
MaxSongs == 2
\* The longest list of include filters, and of exclude filters (the lists of
\* the model hold no filter twice).
MaxFilters == 2
\* The most pieces of text (see MetadataPieces) a value passed to
\* _normalize_metadata is put together from.
MaxPieces == 5
\* The most segments a template has.
MaxSegments == 2
\* The most calls of template_to_filepath with one metadata object.
MaxCalls == 2
\* The most filepaths upload is given.
MaxFiles == 2

-----------------------------------------------------------------------------
(* Python values.                                                          *)

PyStr(chars) == [t |-> "str", s |-> chars, l |-> <<>>]
PyInt(digits) == [t |-> "int", s |-> digits, l |-> <<>>]
PyList(elems) == [t |-> "list", s |-> <<>>, l |-> elems]

\* bool(value): an empty str, the int 0 and an empty list are false.
Truthy(v) ==
    CASE v.t = "str" -> v.s # <<>>
      [] v.t = "int" -> v.s # <<"0">>
      [] OTHER -> v.l # <<>>

\* The result of an operation that returned value.
Returned(value) == [raised |-> FALSE, value |-> value]
\* The result of an operation left by an exception.
Raised == [raised |-> TRUE, value |-> <<>>]

UpperCase ==
    <<"A", "B", "C", "D", "E", "F", "G", "H", "I", "J", "K", "L", "M",
      "N", "O", "P", "Q", "R", "S", "T", "U", "V", "W", "X", "Y", "Z">>
LowerCase ==
    <<"a", "b", "c", "d", "e", "f", "g", "h", "i", "j", "k", "l", "m",
      "n", "o", "p", "q", "r", "s", "t", "u", "v", "w", "x", "y", "z">>
Digits == {"0", "1", "2", "3", "4", "5", "6", "7", "8", "9"}
\* The characters the regex class \s matches.
Whitespace == {" ", "\t", "\n", "\r", "\f"}
\* The characters the regex class \w matches.
WordChars ==
    {UpperCase[i] : i \in DOMAIN UpperCase}
        \cup {LowerCase[i] : i \in DOMAIN LowerCase} \cup Digits \cup {"_"}

\* str.lower() of one character.
LowerChar(c) ==
    IF \E i \in DOMAIN UpperCase : UpperCase[i] = c
    THEN LowerCase[CHOOSE i \in DOMAIN UpperCase : UpperCase[i] = c]
    ELSE c

\* str.lower().
lower(s) == [i \in 1..Len(s) |-> LowerChar(s[i])]

\* The end of the longest run of characters of class that starts at s[i]:
\* the index of the first character from i on that is not in class.
SpanEnd(s, i, class) ==
    CHOOSE j \in i..(Len(s) + 1) :
        /\ \A k \in i..(j - 1) : s[k] \in class
        /\ j = Len(s) + 1 \/ s[j] \notin class

-----------------------------------------------------------------------------
(* _normalize_metadata, one regular-expression substitution at a time.     *)

RECURSIVE SubTotalTracks(_, _)
\* re.sub(r'\/\s*\d+', '', s) from index i on: every "/", optional
\* whitespace and a run of digits is removed, wherever it stands.
SubTotalTracks(s, i) ==
    IF i > Len(s) THEN <<>>
    ELSE IF s[i] = "/"
    THEN LET k == SpanEnd(s, i + 1, Whitespace)
             m == SpanEnd(s, k, Digits)
         IN  IF m > k THEN SubTotalTracks(s, m)
             ELSE <<s[i]>> \o SubTotalTracks(s, i + 1)
    ELSE <<s[i]>> \o SubTotalTracks(s, i + 1)

\* _normalize_metadata without the substitution of leading zeros.
SubLeadingZeros_kept(s) == s

\* re.sub(r'^0+([0-9]+)', r'\1', s): 0+ is greedy but leaves [0-9]+ one digit.
SubLeadingZeros(s) ==
    LET n == SpanEnd(s, 1, Digits) - 1
        z == SpanEnd(s, 1, {"0"}) - 1
        drop == IF z < n THEN z ELSE n - 1
    IN  IF z >= 1 /\ n >= 2 THEN SubSeq(s, drop + 1, Len(s)) ELSE s

\* re.sub(r'^\d+\.+', '', s).
SubTrackDots(s) ==
    LET n == SpanEnd(s, 1, Digits)
        d == SpanEnd(s, n, {"."})
    IN  IF n > 1 /\ d > n THEN SubSeq(s, d, Len(s)) ELSE s

\* re.sub(r'[^\w\s]', '', s).
SubNonWords(s) == SelectSeq(s, LAMBDA c : c \in WordChars \cup Whitespace)

RECURSIVE SubSpaces(_, _)
\* re.sub(r'\s+', ' ', s) from index i on.
SubSpaces(s, i) ==
    IF i > Len(s) THEN <<>>
    ELSE IF s[i] \in Whitespace
    THEN <<" ">> \o SubSpaces(s, SpanEnd(s, i, Whitespace))
    ELSE <<s[i]>> \o SubSpaces(s, i + 1)

\* re.sub(r'^\s+', '', s).
SubLeadingSpace(s) == SubSeq(s, SpanEnd(s, 1, Whitespace), Len(s))

\* re.sub(r'\s+$', '', s).
SubTrailingSpace(s) ==
    LET e == CHOOSE j \in 0..Len(s) :
                 /\ \A k \in (j + 1)..Len(s) : s[k] \in Whitespace
                 /\ j = 0 \/ s[j] \notin Whitespace
    IN  SubSeq(s, 1, e)

\* re.sub(r'^the\s+', '', s, re.I): re.I is passed as the count (2), which an
\* anchored pattern never reaches; the text is already lower case.
SubLeadingThe(s) ==
    IF Len(s) >= 4 /\ SubSeq(s, 1, 3) = <<"t", "h", "e">> /\ s[4] \in Whitespace
    THEN SubSeq(s, SpanEnd(s, 4, Whitespace), Len(s))
    ELSE s

\* str(metadata): the text of a str, the digits of an int.
str(v) == v.s

_normalize_metadata(metadata) ==
    LET m1 == lower(str(metadata))
        m2 == SubTotalTracks(m1, 1)
        m3 == SubLeadingZeros(m2)
        m4 == SubTrackDots(m3)
        m5 == SubNonWords(m4)
        m6 == SubSpaces(m5, 1)
        m7 == SubLeadingSpace(m6)
        m8 == SubTrailingSpace(m7)
    IN  SubLeadingThe(m8)

-----------------------------------------------------------------------------
(* The songs of the model: Google Music song dicts and local files.        *)

\* The Google Music song dicts, by name.  Track numbers are ints.
GoogleSongDicts ==
    [ g_full |->
        [artist |-> PyStr(<<"T", "h", "e", " ", "A">>), album |-> PyStr(<<"B">>),
         title |-> PyStr(<<"C">>), track_number |-> PyInt(<<"3">>)],
      g_notrack |->
        [artist |-> PyStr(<<"A">>), album |-> PyStr(<<"B">>),
         title |-> PyStr(<<"C">>)],
      g_track0 |->
        [artist |-> PyStr(<<"A">>), album |-> PyStr(<<"B">>),
         title |-> PyStr(<<"C">>), track_number |-> PyInt(<<"0">>)],
      g_notitle |->
        [artist |-> PyStr(<<"A">>), album |-> PyStr(<<"B">>)],
      g_muse |->
        [artist |-> PyStr(<<"M", "u", "s", "e">>),
         title |-> PyStr(<<"T", "a", "k", "e", " ", "a", " ", "B", "o", "w">>)],
      g_iver |->
        [artist |-> PyStr(<<"B", "o", "n", " ", "I", "v", "e", "r">>),
         title |-> PyStr(<<"S", "k", "i", "n", "n", "y">>)],
      g_various |->
        [artist |-> PyStr(<<"M", "u", "s", "e">>),
         album_artist |-> PyStr(<<"V", "a", "r", "i", "o", "u", "s">>)] ]

\* What mutagen.File(filepath, easy=True) reads from each loadable local file:
\* every tag is a list of strs.
FileTags ==
    [ full_mp3 |->
        [artist |-> PyList(<<<<"a">>>>), album |-> PyList(<<<<"b">>>>),
         title |-> PyList(<<<<"C", ".">>>>),
         tracknumber |-> PyList(<<<<"0", "3", "/", "1", "2">>>>)],
      track0_mp3 |->
        [artist |-> PyList(<<<<"A">>>>), album |-> PyList(<<<<"B">>>>),
         title |-> PyList(<<<<"C">>>>), tracknumber |-> PyList(<<<<"0">>>>)],
      noalbum_mp3 |->
        [artist |-> PyList(<<<<"A">>>>), album |-> PyList(<<>>),
         title |-> PyList(<<<<"b">>>>), tracknumber |-> PyList(<<<<>>>>)],
      muse_mp3 |->
        [artist |-> PyList(<<<<"M", "u", "s", "e">>>>),
         title |-> PyList(<<<<"T", "a", "k", "e", " ", "a", " ", "B", "o", "w">>>>)],
      iver_mp3 |->
        [artist |-> PyList(<<<<"B", "o", "n", " ", "I", "v", "e", "r">>>>),
         title |-> PyList(<<<<"S", "k", "i", "n", "n", "y">>>>)],
      duo_mp3 |->
        [artist |-> PyList(<< <<"B", "o", "n", " ", "I", "v", "e", "r">>,
                              <<"M", "u", "s", "e">> >>),
         albumartist |-> PyList(<<<<"V", "a", "r", "i", "o", "u", "s">>>>),
         performer |-> PyList(<<>>)] ]

\* The local files mutagen cannot load as music files.
UnreadableFiles == {"bad_mp3"}

GoogleSongs == DOMAIN GoogleSongDicts
LocalFiles == DOMAIN FileTags \cup UnreadableFiles

\* The songs the model passes to compare_song_collections.
CompareSongs ==
    {"g_full", "g_notrack", "g_track0", "g_notitle",
     "full_mp3", "track0_mp3", "noalbum_mp3", "bad_mp3"}
\* The song dicts the model passes to filter_google_songs.
GoogleSongsToFilter == {"g_muse", "g_iver"}
\* The filepaths the model passes to filter_local_songs.
LocalFilesToFilter == {"muse_mp3", "iver_mp3", "bad_mp3"}
\* The (field, pattern) tuples the model builds filters from.
FilterRules ==
    { <<"title", <<"a", " ", "b", "o", "w">> >>,
      <<"artist", <<"M", "u", "s", "e">> >>,
      <<"artist", <<"M", "o", "d", "e", "s", "t">> >> }

\* The song dicts and the filepaths the model passes to the filter operations
\* together with FieldRules: songs with and without an album artist, a tag
\* of two values and a tag without values.
GoogleSongsByField == {"g_various", "g_muse"}
LocalFilesByField == {"duo_mp3", "muse_mp3"}
\* Filters on the album artist under its remote name and its two tag names,
\* and on the artist; the last pattern is the empty regex.
FieldRules ==
    { <<"album_artist", <<"v", "a", "r", "i", "o", "u", "s">> >>,
      <<"albumartist", <<"v", "a", "r", "i", "o", "u", "s">> >>,
      <<"artist", <<"M", "u", "s", "e">> >>,
      <<"performer", <<>> >> }

\* isinstance(song, dict)
IsDict(song) == song \in GoogleSongs

\* Tuples of at most n elements of S.
SeqsUpTo(S, n) == UNION {[1..k -> S] : k \in 0..n}

\* Tuples of at most n elements of S, no element twice.
DistinctSeqsUpTo(S, n) ==
    {s \in SeqsUpTo(S, n) : \A i, j \in DOMAIN s : i # j => s[i] # s[j]}

\* The elements of a sequence.
Range(s) == {s[i] : i \in DOMAIN s}

-----------------------------------------------------------------------------
(* compare_song_collections and its helpers.                               *)

\* mutagen.File either returns the file's tags or raises MutagenError, which
\* _get_mutagen_metadata logs and raises again.
_get_mutagen_metadata(filepath) ==
    IF filepath \in UnreadableFiles THEN Raised
    ELSE Returned(FileTags[filepath])

\* dict((k, v[0]) for k, v in metadata.items() if v)
_mutagen_fields_to_single_value(metadata) ==
    [k \in {f \in DOMAIN metadata : metadata[f].l # <<>>} |->
        PyStr(metadata[k].l[1])]

\* The fields compared, in the order of the list in the code.
ComparisonFields == <<"artist", "album", "title", "tracknumber", "track_number">>

_filter_comparison_fields(song) ==
    SelectSeq(ComparisonFields,
              LAMBDA field : field \in DOMAIN song /\ Truthy(song[field]))

_normalize_song(song) ==
    IF IsDict(song) THEN Returned(GoogleSongDicts[song])
    ELSE LET metadata == _get_mutagen_metadata(song)
         IN  IF metadata.raised THEN Raised
             ELSE Returned(_mutagen_fields_to_single_value(metadata.value))

\* gather_field_values with the normalization left out.
gather_field_values_raw(song) ==
    LET fields == _filter_comparison_fields(song)
    IN  [i \in 1..Len(fields) |-> str(song[fields[i]])]

\* gather_field_values of a song dict.
gather_field_values(song) ==
    LET fields == _filter_comparison_fields(song)
    IN  [i \in 1..Len(fields) |-> _normalize_metadata(song[fields[i]])]

\* dst_songs_criteria built without the last destination song.
dst_songs_criteria_short(dst) ==
    {gather_field_values(_normalize_song(dst[i]).value) : i \in 1..(Len(dst) - 1)}

\* The set comprehension over dst_songs, for dst_songs that all load.
dst_songs_criteria(dst) ==
    {gather_field_values(_normalize_song(dst[i]).value) : i \in DOMAIN dst}

\* missing_songs collected without repeats, as through a set.
missing_songs_unique(src, criteria) ==
    LET all == SelectSeq(src,
                   LAMBDA song : gather_field_values(_normalize_song(song).value)
                                     \notin criteria)
        first == {i \in DOMAIN all : \A j \in 1..(i - 1) : all[j] # all[i]}
    IN  [k \in 1..Cardinality(first) |->
            all[CHOOSE i \in first : Cardinality({j \in first : j <= i}) = k]]

\* The list comprehension over src_songs, for src_songs that all load.
missing_songs(src, criteria) ==
    SelectSeq(src,
              LAMBDA song : gather_field_values(_normalize_song(song).value)
                                \notin criteria)

\* An exception in either comprehension leaves the call: nothing catches it.
compare_song_collections(src, dst) ==
    IF \E i \in DOMAIN dst : _normalize_song(dst[i]).raised THEN Raised
    ELSE IF \E i \in DOMAIN src : _normalize_song(src[i]).raised THEN Raised
    ELSE Returned(missing_songs(src, dst_songs_criteria(dst)))

\* No filter operation is called.
FilterIdle ==
    /\ flt_op = "none"
    /\ songs = <<>>
    /\ include_filters = <<>>
    /\ exclude_filters = <<>>
    /\ all_includes = FALSE
    /\ all_excludes = FALSE
    /\ flt_pc = "idle"
    /\ flt_out =
           [raised |-> FALSE, matched_songs |-> <<>>, filtered_songs |-> <<>>]

\* _normalize_metadata is not called on its own.
NormalizeIdle ==
    /\ nrm_metadata = <<>>
    /\ nrm_pc = "idle"
    /\ nrm_once = <<>>
    /\ nrm_twice = <<>>

\* template_to_filepath is not called.
TemplateIdle ==
    /\ tpl_template = <<>>
    /\ tpl_is_dict = TRUE
    /\ tpl_given = <<>>
    /\ tpl_metadata = <<>>
    /\ tpl_out = <<>>

\* An outcome of get_google_songs: the exception that left it ("none" when
\* it returned), the requests it made to the remote client, the two lists.
GoogleSongsOutcome(error, requests, matched, filtered) ==
    [error |-> error, requests |-> requests,
     matched_songs |-> matched, filtered_songs |-> filtered]

\* get_google_songs is not called.
GetGoogleSongsIdle ==
    /\ ggs_args = <<>>
    /\ ggs_library = <<>>
    /\ ggs_pc = "idle"
    /\ ggs_out = GoogleSongsOutcome("none", <<>>, <<>>, <<>>)

\* upload is not called.
UploadIdle ==
    /\ upl_args = <<>>
    /\ upl_remote = <<>>
    /\ upl_filenum = 0
    /\ upl_results = <<>>
    /\ upl_files = {}
    /\ upl_pc = "idle"

\* download is not called.
DownloadIdle ==
    /\ dl_args = <<>>
    /\ dl_remote = <<>>
    /\ dl_template = <<>>
    /\ dl_songnum = 0
    /\ dl_results = <<>>
    /\ dl_pc = "idle"

\* exclude_filepaths is not called.
ExcludeIdle ==
    /\ exf_args = <<>>
    /\ exf_pc = "idle"
    /\ exf_out = [raised |-> FALSE, included |-> <<>>, excluded |-> <<>>]

\* MusicManagerWrapper.login is not called.
LoginIdle ==
    /\ lgn_args = <<>>
    /\ lgn_authenticated = FALSE
    /\ lgn_calls = <<>>
    /\ lgn_pc = "idle"
    /\ lgn_out = "none"

\* compare_song_collections is not called.
CompareIdle ==
    /\ src_songs = <<>>
    /\ dst_songs = <<>>
    /\ cmp_pc = "idle"
    /\ cmp_out = Returned(<<>>)

CompareInit ==
    /\ src_songs \in SeqsUpTo(CompareSongs, MaxSongs)
    /\ dst_songs \in SeqsUpTo(CompareSongs, MaxSongs)
    /\ cmp_pc = "call"
    /\ cmp_out = Returned(<<>>)
    /\ FilterIdle
    /\ NormalizeIdle
    /\ TemplateIdle
    /\ GetGoogleSongsIdle
    /\ UploadIdle
    /\ DownloadIdle
    /\ ExcludeIdle
    /\ LoginIdle

CompareSongCollections ==
    /\ cmp_pc = "call"
    /\ cmp_out' = compare_song_collections(src_songs, dst_songs)
    /\ cmp_pc' = "done"
    /\ UNCHANGED <<src_songs, dst_songs, flt_vars, nrm_vars, tpl_vars, ggs_vars,
                   upl_vars, dl_vars, exf_vars, lgn_vars>>

CompareNext == CompareSongCollections

SpecCompare == CompareInit /\ [][CompareNext]_vars

-----------------------------------------------------------------------------
(* filter_google_songs, filter_local_songs and their helpers.  A filter is *)
(* a tuple <<field, pattern>>; the patterns of the model are literal text. *)

\* The pattern matches the string at index i under re.I.
MatchesAt(pattern, string, i) ==
    /\ i + Len(pattern) - 1 <= Len(string)
    /\ \A k \in 1..Len(pattern) : LowerChar(string[i + k - 1]) = LowerChar(pattern[k])

RECURSIVE re_search_from(_, _, _)
\* The scan of re.search from index i: whether a match is found.
re_search_from(pattern, string, i) ==
    IF i + Len(pattern) - 1 > Len(string) THEN FALSE
    ELSE IF MatchesAt(pattern, string, i) THEN TRUE
    ELSE re_search_from(pattern, string, i + 1)

\* Whether re.search(pattern, string, re.I) returns a match.
re_search(pattern, string) == re_search_from(pattern, string, 1)

\* _check_field_value with re.match in place of re.search.
_check_field_value_anchored(field_value, pattern) ==
    IF field_value.t = "list"
    THEN \E i \in DOMAIN field_value.l : MatchesAt(pattern, field_value.l[i], 1)
    ELSE MatchesAt(pattern, str(field_value), 1)

\* _check_field_value looking at the first element of a list only.
_check_field_value_first(field_value, pattern) ==
    IF field_value.t = "list"
    THEN field_value.l # <<>> /\ re_search(pattern, field_value.l[1])
    ELSE re_search(pattern, str(field_value))

\* The truth of what _check_field_value returns.
_check_field_value(field_value, pattern) ==
    IF field_value.t = "list"
    THEN \E i \in DOMAIN field_value.l : re_search(pattern, field_value.l[i])
    ELSE re_search(pattern, str(field_value))

\* The generator expression with a rule on an absent field taken to hold.
FilterMatches_absent_holds(song, filter) ==
    filter[1] \notin DOMAIN song \/ _check_field_value(song[filter[1]], filter[2])

\* The generator expression of _check_filters for one (field, pattern).
FilterMatches(song, filter) ==
    filter[1] \in DOMAIN song /\ _check_field_value(song[filter[1]], filter[2])

\* _check_filters with all_excludes taken for all_includes.
_check_filters_one_flag(song, includes, excludes, all_inc, all_exc) ==
    LET any_inc == \E i \in DOMAIN includes : FilterMatches(song, includes[i])
        every_inc == \A i \in DOMAIN includes : FilterMatches(song, includes[i])
        any_exc == \E i \in DOMAIN excludes : FilterMatches(song, excludes[i])
        every_exc == \A i \in DOMAIN excludes : FilterMatches(song, excludes[i])
        include1 ==
            IF includes # <<>>
            THEN IF all_inc THEN every_inc ELSE any_inc
            ELSE TRUE
    IN  IF excludes # <<>>
        THEN IF all_inc
             THEN IF every_exc THEN FALSE ELSE include1
             ELSE IF any_exc THEN FALSE ELSE include1
        ELSE include1

\* _check_filters with the exclude filters tried only without include filters.
_check_filters_elif(song, includes, excludes, all_inc, all_exc) ==
    LET any_inc == \E i \in DOMAIN includes : FilterMatches(song, includes[i])
        every_inc == \A i \in DOMAIN includes : FilterMatches(song, includes[i])
        any_exc == \E i \in DOMAIN excludes : FilterMatches(song, excludes[i])
        every_exc == \A i \in DOMAIN excludes : FilterMatches(song, excludes[i])
    IN  IF includes # <<>>
        THEN IF all_inc THEN every_inc ELSE any_inc
        ELSE IF excludes # <<>>
        THEN IF all_exc THEN ~every_exc ELSE ~any_exc
        ELSE TRUE

\* _check_filters: include starts True and each block may set it False.
_check_filters(song, includes, excludes, all_inc, all_exc) ==
    LET any_inc == \E i \in DOMAIN includes : FilterMatches(song, includes[i])
        every_inc == \A i \in DOMAIN includes : FilterMatches(song, includes[i])
        any_exc == \E i \in DOMAIN excludes : FilterMatches(song, excludes[i])
        every_exc == \A i \in DOMAIN excludes : FilterMatches(song, excludes[i])
        include1 ==
            IF includes # <<>>
            THEN IF all_inc
                 THEN IF ~every_inc THEN FALSE ELSE TRUE
                 ELSE IF ~any_inc THEN FALSE ELSE TRUE
            ELSE TRUE
    IN  IF excludes # <<>>
        THEN IF all_exc
             THEN IF every_exc THEN FALSE ELSE include1
             ELSE IF any_exc THEN FALSE ELSE include1
        ELSE include1

\* The lists a filter operation returns.
Partition(matched, filtered) ==
    [raised |-> FALSE, matched_songs |-> matched, filtered_songs |-> filtered]
\* A filter operation left by an exception.
FilterRaised == [raised |-> TRUE, matched_songs |-> <<>>, filtered_songs |-> <<>>]

RECURSIVE google_songs_loop(_, _, _, _, _, _, _, _)
\* The for loop of filter_google_songs from songs[i] on.
google_songs_loop(songlist, i, matched, filtered, includes, excludes, all_inc, all_exc) ==
    IF i > Len(songlist) THEN Partition(matched, filtered)
    ELSE IF _check_filters(GoogleSongDicts[songlist[i]], includes, excludes,
                           all_inc, all_exc)
    THEN google_songs_loop(songlist, i + 1, Append(matched, songlist[i]), filtered,
                           includes, excludes, all_inc, all_exc)
    ELSE google_songs_loop(songlist, i + 1, matched, Append(filtered, songlist[i]),
                           includes, excludes, all_inc, all_exc)

\* filter_google_songs without the else branch for the call without filters.
filter_google_songs_no_else(songlist, includes, excludes, all_inc, all_exc) ==
    IF includes # <<>> \/ excludes # <<>>
    THEN google_songs_loop(songlist, 1, <<>>, <<>>, includes, excludes,
                           all_inc, all_exc)
    ELSE Partition(<<>>, <<>>)

filter_google_songs(songlist, includes, excludes, all_inc, all_exc) ==
    IF includes # <<>> \/ excludes # <<>>
    THEN google_songs_loop(songlist, 1, <<>>, <<>>, includes, excludes,
                           all_inc, all_exc)
    ELSE Partition(<<>> \o songlist, <<>>)

RECURSIVE local_songs_loop(_, _, _, _, _, _, _, _)
\* The for loop of filter_local_songs from filepaths[i] on: a MutagenError
\* is caught and the file goes to filtered_songs.
local_songs_loop(filepaths, i, matched, filtered, includes, excludes, all_inc, all_exc) ==
    IF i > Len(filepaths) THEN Partition(matched, filtered)
    ELSE LET song == _get_mutagen_metadata(filepaths[i])
             keep ==
                 IF song.raised THEN FALSE
                 ELSE IF includes # <<>> \/ excludes # <<>>
                 THEN _check_filters(song.value, includes, excludes, all_inc, all_exc)
                 ELSE TRUE
         IN  IF keep
             THEN local_songs_loop(filepaths, i + 1, Append(matched, filepaths[i]),
                                   filtered, includes, excludes, all_inc, all_exc)
             ELSE local_songs_loop(filepaths, i + 1, matched,
                                   Append(filtered, filepaths[i]),
                                   includes, excludes, all_inc, all_exc)

\* filter_local_songs without the except clause: a MutagenError leaves it.
filter_local_songs_uncaught(filepaths, includes, excludes, all_inc, all_exc) ==
    IF \E i \in DOMAIN filepaths : _get_mutagen_metadata(filepaths[i]).raised
    THEN FilterRaised
    ELSE local_songs_loop(filepaths, 1, <<>>, <<>>, includes, excludes,
                          all_inc, all_exc)

\* filter_local_songs returning its matched songs last first.
filter_local_songs_reversed(filepaths, includes, excludes, all_inc, all_exc) ==
    LET out == local_songs_loop(filepaths, 1, <<>>, <<>>, includes, excludes,
                                all_inc, all_exc)
        n == Len(out.matched_songs)
    IN  Partition([i \in 1..n |-> out.matched_songs[n + 1 - i]], out.filtered_songs)

filter_local_songs(filepaths, includes, excludes, all_inc, all_exc) ==
    local_songs_loop(filepaths, 1, <<>>, <<>>, includes, excludes, all_inc, all_exc)

FilterInit ==
    /\ flt_op \in {"filter_google_songs", "filter_local_songs"}
    /\ songs \in SeqsUpTo(IF flt_op = "filter_google_songs"
                          THEN GoogleSongsToFilter ELSE LocalFilesToFilter,
                    MaxSongs)
    /\ include_filters \in DistinctSeqsUpTo(FilterRules, MaxFilters)
    /\ exclude_filters \in DistinctSeqsUpTo(FilterRules, MaxFilters)
    /\ all_includes \in BOOLEAN
    /\ all_excludes \in BOOLEAN
    /\ flt_pc = "call"
    /\ flt_out = Partition(<<>>, <<>>)
    /\ CompareIdle
    /\ NormalizeIdle
    /\ TemplateIdle
    /\ GetGoogleSongsIdle
    /\ UploadIdle
    /\ DownloadIdle
    /\ ExcludeIdle
    /\ LoginIdle

\* The calls of the filter operations with the filters of FieldRules.
FilterFieldsInit ==
    /\ flt_op \in {"filter_google_songs", "filter_local_songs"}
    /\ songs \in DistinctSeqsUpTo(IF flt_op = "filter_google_songs"
                                  THEN GoogleSongsByField ELSE LocalFilesByField,
                                  MaxSongs)
    /\ include_filters \in DistinctSeqsUpTo(FieldRules, MaxFilters)
    /\ exclude_filters \in DistinctSeqsUpTo(FieldRules, MaxFilters)
    /\ all_includes \in BOOLEAN
    /\ all_excludes \in BOOLEAN
    /\ flt_pc = "call"
    /\ flt_out = Partition(<<>>, <<>>)
    /\ CompareIdle
    /\ NormalizeIdle
    /\ TemplateIdle
    /\ GetGoogleSongsIdle
    /\ UploadIdle
    /\ DownloadIdle
    /\ ExcludeIdle
    /\ LoginIdle

FilterGoogleSongs ==
    /\ flt_pc = "call"
    /\ flt_op = "filter_google_songs"
    /\ flt_out' = filter_google_songs(songs, include_filters, exclude_filters,
                                      all_includes, all_excludes)
    /\ flt_pc' = "done"
    /\ UNCHANGED <<flt_op, songs, include_filters, exclude_filters,
                   all_includes, all_excludes, cmp_vars, nrm_vars, tpl_vars,
                   ggs_vars, upl_vars, dl_vars, exf_vars, lgn_vars>>

FilterLocalSongs ==
    /\ flt_pc = "call"
    /\ flt_op = "filter_local_songs"
    /\ flt_out' = filter_local_songs(songs, include_filters, exclude_filters,
                                     all_includes, all_excludes)
    /\ flt_pc' = "done"
    /\ UNCHANGED <<flt_op, songs, include_filters, exclude_filters,
                   all_includes, all_excludes, cmp_vars, nrm_vars, tpl_vars,
                   ggs_vars, upl_vars, dl_vars, exf_vars, lgn_vars>>

FilterNext == FilterGoogleSongs \/ FilterLocalSongs

SpecFilter == FilterInit /\ [][FilterNext]_vars

SpecFilterFields == FilterFieldsInit /\ [][FilterNext]_vars

-----------------------------------------------------------------------------
(* _normalize_metadata applied to a value, and again to its own result.    *)

\* The pieces of text the values of the model are put together from: digits,
\* the separator of a track number from its total, white space, punctuation,
\* an article and a letter.
MetadataPieces ==
    { <<"0">>, <<"3">>, <<"/">>, <<" ">>, <<".">>, <<"T", "h", "e">>, <<"x">> }

RECURSIVE Joined(_)
\* ''.join(pieces)
Joined(pieces) ==
    IF pieces = <<>> THEN <<>> ELSE Head(pieces) \o Joined(Tail(pieces))

NormalizeInit ==
    /\ nrm_metadata \in {Joined(pieces) : pieces \in SeqsUpTo(MetadataPieces, MaxPieces)}
    /\ nrm_pc = "call"
    /\ nrm_once = <<>>
    /\ nrm_twice = <<>>
    /\ CompareIdle
    /\ FilterIdle
    /\ TemplateIdle
    /\ GetGoogleSongsIdle
    /\ UploadIdle
    /\ DownloadIdle
    /\ ExcludeIdle
    /\ LoginIdle

\* _normalize_metadata(metadata)
NormalizeMetadata ==
    /\ nrm_pc = "call"
    /\ nrm_once' = _normalize_metadata(PyStr(nrm_metadata))
    /\ nrm_pc' = "once"
    /\ UNCHANGED <<nrm_metadata, nrm_twice, cmp_vars, flt_vars, tpl_vars, ggs_vars,
                   upl_vars, dl_vars, exf_vars, lgn_vars>>

\* _normalize_metadata of the result of the first call.
NormalizeAgain ==
    /\ nrm_pc = "once"
    /\ nrm_twice' = _normalize_metadata(PyStr(nrm_once))
    /\ nrm_pc' = "twice"
    /\ UNCHANGED <<nrm_metadata, nrm_once, cmp_vars, flt_vars, tpl_vars, ggs_vars,
                   upl_vars, dl_vars, exf_vars, lgn_vars>>

NormalizeNext == NormalizeMetadata \/ NormalizeAgain

SpecNormalize == NormalizeInit /\ [][NormalizeNext]_vars

-----------------------------------------------------------------------------
(* template_to_filepath and its helpers, on a POSIX system: os.sep is "/"  *)
(* and os.path.splitdrive finds no drive.                                  *)

\* constants.CHARACTER_REPLACEMENTS, in the order of the dict.
CHARACTER_REPLACEMENTS ==
    << <<"\\", <<"-">> >>, <<"/", <<",">> >>, <<":", <<"-">> >>,
       <<"*", <<"x">> >>, <<"<", <<"[">> >>, <<">", <<"]">> >>,
       <<"|", <<"!">> >>, <<"?", <<>> >>, <<"\"", <<"'", "'">> >> >>

\* constants.TEMPLATE_PATTERNS, in the order of the dict: <<key, field>>.
TEMPLATE_PATTERNS ==
    << << <<"%", "a", "r", "t", "i", "s", "t", "%">>, "artist" >>,
       << <<"%", "t", "i", "t", "l", "e", "%">>, "title" >>,
       << <<"%", "t", "r", "a", "c", "k", "%">>, "tracknumber" >>,
       << <<"%", "t", "r", "a", "c", "k", "2", "%">>, "tracknumber" >>,
       << <<"%", "a", "l", "b", "u", "m", "%">>, "album" >>,
       << <<"%", "d", "a", "t", "e", "%">>, "date" >>,
       << <<"%", "g", "e", "n", "r", "e", "%">>, "genre" >>,
       << <<"%", "a", "l", "b", "u", "m", "a", "r", "t", "i", "s", "t", "%">>,
          "performer" >>,
       << <<"%", "d", "i", "s", "c", "%">>, "discnumber" >> >>

\* '%suggested%'
SuggestedPattern == <<"%", "s", "u", "g", "g", "e", "s", "t", "e", "d", "%">>

\* os.getcwd(): the directory the program runs in.
Getcwd == <<"/", "x">>

\* sub in string, for a non-empty sub
Contains(string, sub) ==
    \E i \in 1..(Len(string) - Len(sub) + 1) :
        string[i] = sub[1] /\ SubSeq(string, i, i + Len(sub) - 1) = sub

RECURSIVE str_replace_from(_, _, _, _)
\* string.replace(old, new) from index i on, for a non-empty old: the
\* occurrences are taken left to right and do not overlap.
str_replace_from(string, i, old, new) ==
    IF i > Len(string) THEN <<>>
    ELSE IF string[i] = old[1]
            /\ i + Len(old) - 1 <= Len(string)
            /\ SubSeq(string, i, i + Len(old) - 1) = old
    THEN new \o str_replace_from(string, i + Len(old), old, new)
    ELSE <<string[i]>> \o str_replace_from(string, i + 1, old, new)

str_replace(string, old, new) ==
    IF \E i \in DOMAIN string : string[i] = old[1]
    THEN str_replace_from(string, 1, old, new)
    ELSE string

\* string.zfill(width) of a string without a sign, and the format
\* specification 0>width of a str or an int.
zfill(string, width) ==
    IF Len(string) >= width THEN string
    ELSE [i \in 1..(width - Len(string)) |-> "0"] \o string

\* bool(metadata.get(key))
HasValue(metadata, key) == key \in DOMAIN metadata /\ Truthy(metadata[key])

get_suggested_filename(metadata) ==
    IF HasValue(metadata, "title") /\ HasValue(metadata, "track_number")
    THEN zfill(str(metadata["track_number"]), 2) \o <<" ">> \o str(metadata["title"])
    ELSE IF HasValue(metadata, "title") /\ HasValue(metadata, "trackNumber")
    THEN zfill(str(metadata["trackNumber"]), 2) \o <<" ">> \o str(metadata["title"])
    ELSE IF HasValue(metadata, "title") /\ HasValue(metadata, "tracknumber")
    THEN zfill(str(metadata["tracknumber"]), 2) \o <<" ">> \o str(metadata["title"])
    ELSE <<"0", "0", " ">>
             \o (IF "title" \in DOMAIN metadata THEN str(metadata["title"]) ELSE <<>>)

\* re.match(r'(\d+)/\d+', field) finds digits, "/" and a digit at the start of
\* the field or returns None, and None.group raises AttributeError.
_split_field_to_single_value(field) ==
    LET n == SpanEnd(field, 1, Digits)
    IN  IF n > 1 /\ n + 1 <= Len(field) /\ field[n] = "/" /\ field[n + 1] \in Digits
        THEN Returned(SubSeq(field, 1, n - 1))
        ELSE Raised

\* posixpath.split(path): head is cut before the last "/" and loses its
\* trailing slashes unless it is made of slashes.
os_path_split(path) ==
    LET slashes == {i \in DOMAIN path : path[i] = "/"}
        i == IF slashes = {} THEN 0
             ELSE CHOOSE k \in slashes : \A j \in slashes : j <= k
        head == SubSeq(path, 1, i)
        last == IF \A k \in DOMAIN head : head[k] = "/" THEN Len(head)
                ELSE CHOOSE k \in DOMAIN head :
                         /\ head[k] # "/"
                         /\ \A j \in (k + 1)..Len(head) : head[j] = "/"
    IN  [head |-> SubSeq(head, 1, last), tail |-> SubSeq(path, i + 1, Len(path))]

RECURSIVE path_parts(_)
\* The while loop of _replace_template_patterns and parts.reverse(): the
\* tails split off the path, first segment first.
path_parts(path) ==
    LET split == os_path_split(path)
    IN  IF split.head = path THEN <<>>
        ELSE Append(path_parts(split.head), split.tail)

RECURSIVE os_path_join(_, _)
\* posixpath.join(a, *p)
os_path_join(a, p) ==
    IF p = <<>> THEN a
    ELSE LET b == Head(p)
             path == IF b # <<>> /\ b[1] = "/" THEN b
                     ELSE IF a = <<>> \/ a[Len(a)] = "/" THEN a \o b
                     ELSE a \o <<"/">> \o b
         IN  os_path_join(path, Tail(p))

\* os.path.isabs(path)
os_path_isabs(path) == path # <<>> /\ path[1] = "/"

\* What the loops of _replace_template_patterns have made so far.
Expansion(raised, text, metadata) ==
    [raised |-> raised, text |-> text, metadata |-> metadata]

RECURSIVE replace_keys(_, _, _, _, _)
\* The loop over template_patterns from its k-th key on, for one segment:
\* part is the segment as split from the template, text is parts[i] now.
replace_keys(part, text, metadata, template_patterns, k) ==
    IF k > Len(template_patterns) THEN Expansion(FALSE, text, metadata)
    ELSE LET key == template_patterns[k][1]
             field == template_patterns[k][2]
         IN  IF Contains(part, key) /\ field \in DOMAIN metadata
             THEN IF field \in {"tracknumber", "track_number"}
                  THEN LET track_number ==
                               _split_field_to_single_value(str(metadata[field]))
                           padded ==
                               [metadata EXCEPT
                                   ![field] = PyStr(zfill(track_number.value, 2))]
                       IN  IF track_number.raised
                           THEN Expansion(TRUE, text, metadata)
                           ELSE replace_keys(part,
                                    str_replace(text, key, str(padded[field])),
                                    padded, template_patterns, k + 1)
                  ELSE replace_keys(part,
                           str_replace(text, key, str(metadata[field])),
                           metadata, template_patterns, k + 1)
             ELSE replace_keys(part, text, metadata, template_patterns, k + 1)

RECURSIVE replace_characters(_, _)
\* The loop over CHARACTER_REPLACEMENTS from its k-th character on.
replace_characters(text, k) ==
    IF k > Len(CHARACTER_REPLACEMENTS) THEN text
    ELSE replace_characters(
             str_replace(text, <<CHARACTER_REPLACEMENTS[k][1]>>,
                         CHARACTER_REPLACEMENTS[k][2]),
             k + 1)

RECURSIVE replace_parts(_, _, _, _)
\* The loop over parts from parts[i] on; text holds the segments.
replace_parts(parts, i, metadata, template_patterns) ==
    IF i > Len(parts) THEN Expansion(FALSE, parts, metadata)
    ELSE LET keys == replace_keys(parts[i], parts[i], metadata, template_patterns, 1)
         IN  IF keys.raised THEN Expansion(TRUE, parts, keys.metadata)
             ELSE replace_parts(
                      [parts EXCEPT ![i] = replace_characters(keys.text, 1)],
                      i + 1, keys.metadata, template_patterns)

\* The result: text is the filepath returned unless raised, metadata the
\* metadata dict as the call leaves it.  os.path.join() without a segment
\* raises TypeError.
_replace_template_patterns(template, metadata, template_patterns) ==
    LET done == replace_parts(path_parts(template), 1, metadata, template_patterns)
    IN  IF done.raised THEN Expansion(TRUE, <<>>, done.metadata)
        ELSE IF os_path_isabs(template)
        THEN Expansion(FALSE, os_path_join(<<"/">>, done.text), done.metadata)
        ELSE IF done.text = <<>> THEN Expansion(TRUE, <<>>, done.metadata)
        ELSE Expansion(FALSE, os_path_join(Head(done.text), Tail(done.text)),
                       done.metadata)

\* The result of template_to_filepath with the default template_patterns:
\* metadata is the caller's metadata object as the call leaves it.  Mutagen
\* metadata is copied into a new dict, a dict is used as it is.
template_to_filepath(template, metadata, is_dict) ==
    LET fields == IF is_dict THEN metadata
                  ELSE _mutagen_fields_to_single_value(metadata)
        suggested_filename ==
            str_replace(get_suggested_filename(fields), <<".", "m", "p", "3">>, <<>>)
        replaced ==
            _replace_template_patterns(
                str_replace(template, SuggestedPattern, suggested_filename),
                fields, TEMPLATE_PATTERNS)
    IN  IF template = Getcwd \/ template = SuggestedPattern
        THEN Expansion(FALSE, suggested_filename, metadata)
        ELSE Expansion(replaced.raised, replaced.text,
                       IF is_dict THEN replaced.metadata ELSE metadata)

\* The segments the templates of the model are put together from.
TemplateSegments ==
    { <<"%", "a", "r", "t", "i", "s", "t", "%">>,
      <<"%", "t", "i", "t", "l", "e", "%">>,
      <<"%", "t", "r", "a", "c", "k", "%">>,
      <<"%", "t", "r", "a", "c", "k", "2", "%", " ",
        "%", "a", "r", "t", "i", "s", "t", "%">>,
      SuggestedPattern, <<"x">> }

\* The templates of the model: relative and absolute paths of at most
\* MaxSegments segments.
Templates ==
    { root \o (IF segments = <<>> THEN <<>>
               ELSE os_path_join(Head(segments), Tail(segments))) :
        root \in {<<>>, <<"/">>},
        segments \in SeqsUpTo(TemplateSegments, MaxSegments) }

\* The values the metadata of the model has for each field.
FieldValues ==
    [ artist |-> {PyStr(<<"A", "C", "/", "D", "C">>), PyStr(<<"?">>)},
      title |-> {PyStr(<<"T", ".", "N", ".", "T">>), PyStr(<<"A", "/", "B", "?">>)},
      tracknumber |-> {PyStr(<<"3">>), PyStr(<<"3", "/", "1", "2">>)} ]

\* The metadata dicts of the model: any of the fields, each with a value.
MetadataDicts ==
    UNION { {metadata \in [fields -> UNION {FieldValues[f] : f \in fields}] :
                \A f \in fields : metadata[f] \in FieldValues[f]} :
            fields \in SUBSET DOMAIN FieldValues }

\* The mutagen metadata of a file with the tags of the dict.
AsFileTags(metadata) == [f \in DOMAIN metadata |-> PyList(<<str(metadata[f])>>)]

TemplateInit ==
    /\ tpl_template \in Templates
    /\ tpl_is_dict \in BOOLEAN
    /\ tpl_given \in {IF tpl_is_dict THEN metadata ELSE AsFileTags(metadata) :
                         metadata \in MetadataDicts}
    /\ tpl_metadata = tpl_given
    /\ tpl_out = <<>>
    /\ CompareIdle
    /\ FilterIdle
    /\ NormalizeIdle
    /\ GetGoogleSongsIdle
    /\ UploadIdle
    /\ DownloadIdle
    /\ ExcludeIdle
    /\ LoginIdle

\* template_to_filepath(template, metadata), called with the caller's
\* metadata object as the calls before have left it.
TemplateToFilepath ==
    /\ Len(tpl_out) < MaxCalls
    /\ LET result == template_to_filepath(tpl_template, tpl_metadata, tpl_is_dict)
       IN  /\ tpl_out' = Append(tpl_out, IF result.raised THEN Raised
                                         ELSE Returned(result.text))
           /\ tpl_metadata' = result.metadata
    /\ UNCHANGED <<tpl_template, tpl_is_dict, tpl_given, cmp_vars, flt_vars, nrm_vars,
                   ggs_vars, upl_vars, dl_vars, exf_vars, lgn_vars>>

TemplateNext == TemplateToFilepath

SpecTemplate == TemplateInit /\ [][TemplateNext]_vars

-----------------------------------------------------------------------------
(* MusicManagerWrapper.get_google_songs.  The remote client answers a      *)
(* request with the songs of the library or fails it with CallFailure.     *)

\* The body of get_google_songs after its check of uploaded and purchased:
\* the requests to the remote client, then filter_google_songs.
get_google_songs_requests(args, library) ==
    IF args.uploaded /\ library.fails = "get_uploaded_songs"
    THEN GoogleSongsOutcome("CallFailure", <<"get_uploaded_songs">>, <<>>, <<>>)
    ELSE LET uploaded_songs == IF args.uploaded THEN library.uploaded ELSE <<>>
             uploaded_requests ==
                 IF args.uploaded THEN <<"get_uploaded_songs">> ELSE <<>>
         IN  IF ~args.purchased
             THEN LET lists == filter_google_songs(
                                   uploaded_songs, args.include_filters,
                                   args.exclude_filters, args.all_includes,
                                   args.all_excludes)
                  IN  GoogleSongsOutcome("none", uploaded_requests,
                                         lists.matched_songs, lists.filtered_songs)
             ELSE IF library.fails = "get_purchased_songs"
             THEN GoogleSongsOutcome(
                      "CallFailure",
                      Append(uploaded_requests, "get_purchased_songs"), <<>>, <<>>)
             ELSE LET lists == filter_google_songs(
                                   uploaded_songs \o library.purchased,
                                   args.include_filters, args.exclude_filters,
                                   args.all_includes, args.all_excludes)
                  IN  GoogleSongsOutcome(
                          "none", Append(uploaded_requests, "get_purchased_songs"),
                          lists.matched_songs, lists.filtered_songs)

\* get_google_songs requiring uploaded and purchased both.
get_google_songs_both_required(args, library) ==
    IF ~args.uploaded \/ ~args.purchased
    THEN GoogleSongsOutcome("ValueError", <<>>, <<>>, <<>>)
    ELSE get_google_songs_requests(args, library)

get_google_songs(args, library) ==
    IF ~args.uploaded /\ ~args.purchased
    THEN GoogleSongsOutcome("ValueError", <<>>, <<>>, <<>>)
    ELSE get_google_songs_requests(args, library)

\* The filter lists of the calls of the model: no filter or one.
OneFilterOrNone == {<<>>} \cup {<<rule>> : rule \in FilterRules}

GetGoogleSongsInit ==
    /\ ggs_args \in
           [include_filters : OneFilterOrNone, exclude_filters : OneFilterOrNone,
            all_includes : {FALSE}, all_excludes : {FALSE},
            uploaded : BOOLEAN, purchased : BOOLEAN]
    /\ ggs_library \in
           [uploaded : {<<>>, <<"g_muse">>, <<"g_muse", "g_iver">>},
            purchased : {<<>>, <<"g_various">>},
            fails : {"none", "get_uploaded_songs", "get_purchased_songs"}]
    /\ ggs_pc = "call"
    /\ ggs_out = GoogleSongsOutcome("none", <<>>, <<>>, <<>>)
    /\ CompareIdle
    /\ FilterIdle
    /\ NormalizeIdle
    /\ TemplateIdle
    /\ UploadIdle
    /\ DownloadIdle
    /\ ExcludeIdle
    /\ LoginIdle

GetGoogleSongs ==
    /\ ggs_pc = "call"
    /\ ggs_out' = get_google_songs(ggs_args, ggs_library)
    /\ ggs_pc' = "done"
    /\ UNCHANGED <<ggs_args, ggs_library, cmp_vars, flt_vars, nrm_vars, tpl_vars,
                   upl_vars, dl_vars, exf_vars, lgn_vars>>

GetGoogleSongsNext == GetGoogleSongs

SpecGetGoogleSongs == GetGoogleSongsInit /\ [][GetGoogleSongsNext]_vars

-----------------------------------------------------------------------------
(* MusicManagerWrapper.upload and _upload.  A message of the remote client *)
(* is a sequence of words; a song id is one word.                          *)

\* The song ids of the remote client: the texts GM_ID_RE matches.
ServerIds == {"id-1", "id-2"}

\* GM_ID_RE.search(message): the first song id of the message, or None,
\* whose group() raises AttributeError.
GM_ID_RE_search(message) ==
    LET at == {i \in DOMAIN message : message[i] \in ServerIds}
    IN  IF at = {} THEN Raised
        ELSE Returned(message[CHOOSE i \in at : \A j \in at : i <= j])

exist_strings == <<"ALREADY_EXISTS", "this song is already uploaded">>

\* What self.api.upload does with one file: it returns the dicts uploaded,
\* matched and not_uploaded, one of them with the file, or raises
\* CallFailure.
RemoteAnswers ==
    [kind : {"uploaded", "matched"}, id : ServerIds, message : {<<>>}]
    \cup [kind : {"not_uploaded"}, id : {""},
          message : {<<"ALREADY_EXISTS", "(", "id-1", ")">>,
                     <<"this song is already uploaded", "(", "id-2", ")">>,
                     <<"PERMANENT_ERROR">>}]
    \cup [kind : {"CallFailure"}, id : {""}, message : {<<"timeout">>}]

\* One result of _upload: the 4-tuple (uploaded, matched, not_uploaded,
\* error) of dicts, each a function of the filepaths it holds.
_upload_result(filepath, answer) ==
    [uploaded |-> IF answer.kind = "uploaded"
                  THEN [f \in {filepath} |-> answer.id] ELSE <<>>,
     matched |-> IF answer.kind = "matched"
                 THEN [f \in {filepath} |-> answer.id] ELSE <<>>,
     not_uploaded |-> IF answer.kind = "not_uploaded"
                      THEN [f \in {filepath} |-> answer.message] ELSE <<>>,
     error |-> IF answer.kind = "CallFailure"
               THEN [f \in {filepath} |-> answer.message] ELSE <<>>]

\* The truth of a dict: it is not empty.
DictTruthy(dict) == DOMAIN dict # {}

\* The result dict upload appends for one file, or the exception raised
\* where it is built: calling the dict not_uploaded is a TypeError.
upload_result_dict(filepath, result) ==
    IF DictTruthy(result.uploaded)
    THEN [raised |-> "none",
          value |-> [filepath |-> filepath, result |-> "uploaded",
                     id |-> result.uploaded[filepath], message |-> <<>>]]
    ELSE IF DictTruthy(result.matched)
    THEN [raised |-> "none",
          value |-> [filepath |-> filepath, result |-> "matched",
                     id |-> result.matched[filepath], message |-> <<>>]]
    ELSE IF DictTruthy(result.error)
    THEN [raised |-> "none",
          value |-> [filepath |-> filepath, result |-> "error", id |-> "",
                     message |-> result.error[filepath]]]
    ELSE IF \E k \in DOMAIN exist_strings :
                Contains(result.not_uploaded[filepath], <<exist_strings[k]>>)
    THEN LET song_id == GM_ID_RE_search(result.not_uploaded[filepath])
         IN  IF song_id.raised
             THEN [raised |-> "AttributeError", value |-> <<>>]
             ELSE [raised |-> "none",
                   value |-> [filepath |-> filepath, result |-> "not_uploaded",
                              id |-> song_id.value,
                              message |-> result.not_uploaded[filepath]]]
    ELSE [raised |-> "TypeError", value |-> <<>>]

\* success with an error counted as well.
upload_success_with_error(filepath, result) ==
    \/ DictTruthy(result.uploaded) \/ DictTruthy(result.matched) \/ DictTruthy(result.error)
    \/ /\ DictTruthy(result.not_uploaded)
       /\ Contains(result.not_uploaded[filepath], <<"ALREADY_EXISTS">>)

\* success of upload for one file.
upload_success(filepath, result) ==
    \/ DictTruthy(result.uploaded) \/ DictTruthy(result.matched)
    \/ /\ DictTruthy(result.not_uploaded)
       /\ Contains(result.not_uploaded[filepath], <<"ALREADY_EXISTS">>)

\* The files the model uploads.
UploadFiles == {"muse_mp3", "bad_mp3"}

UploadInit ==
    /\ upl_args \in [filepaths : SeqsUpTo(UploadFiles, MaxFiles),
                      delete_on_success : BOOLEAN]
    /\ upl_remote \in [UploadFiles -> RemoteAnswers]
    /\ upl_filenum = 0
    /\ upl_results = <<>>
    /\ upl_files = UploadFiles
    /\ upl_pc = "loop"
    /\ CompareIdle
    /\ FilterIdle
    /\ NormalizeIdle
    /\ TemplateIdle
    /\ GetGoogleSongsIdle
    /\ DownloadIdle
    /\ ExcludeIdle
    /\ LoginIdle

\* One turn of the loop of upload: _upload yields the result of the next
\* file, upload appends its result dict and removes the file on success.
UploadFile ==
    /\ upl_pc = "loop"
    /\ upl_filenum < Len(upl_args.filepaths)
    /\ LET filepath == upl_args.filepaths[upl_filenum + 1]
           result == _upload_result(filepath, upl_remote[filepath])
           dict == upload_result_dict(filepath, result)
       IN  /\ upl_filenum' = upl_filenum + 1
           /\ IF dict.raised # "none"
              THEN /\ upl_pc' = dict.raised
                   /\ upl_results' = upl_results
                   /\ upl_files' = upl_files
              ELSE /\ upl_pc' = "loop"
                   /\ upl_results' = Append(upl_results, dict.value)
                   /\ upl_files' =
                          IF upload_success(filepath, result)
                             /\ upl_args.delete_on_success
                          THEN upl_files \ {filepath}
                          ELSE upl_files
    /\ UNCHANGED <<upl_args, upl_remote, cmp_vars, flt_vars, nrm_vars,
                   tpl_vars, ggs_vars, dl_vars, exf_vars, lgn_vars>>

\* The loop is over: return results.
UploadReturn ==
    /\ upl_pc = "loop"
    /\ upl_filenum = Len(upl_args.filepaths)
    /\ upl_pc' = "returned"
    /\ UNCHANGED <<upl_args, upl_remote, upl_filenum, upl_results, upl_files,
                   cmp_vars, flt_vars, nrm_vars, tpl_vars, ggs_vars,
                   dl_vars, exf_vars, lgn_vars>>

UploadNext == UploadFile \/ UploadReturn

SpecUpload == UploadInit /\ [][UploadNext]_vars

-----------------------------------------------------------------------------
(* MusicManagerWrapper.download and _download.  The local file system      *)
(* takes every directory and file the downloads make.                      *)

\* What self.api.download_song returns for the songs of the model: the
\* suggested filename, and the tags mutagen reads from the audio.
DownloadedSongs ==
    [ g_muse |->
        [suggested_filename |-> <<"a", ".", "m", "p", "3">>,
         metadata |-> [artist |-> PyList(<<<<"M", "u", "s", "e">>>>),
                       title |-> PyList(<<<<"T", ".", "N", ".", "T">>>>)]],
      g_iver |->
        [suggested_filename |-> <<"b", ".", "m", "p", "3">>,
         metadata |-> [artist |-> PyList(<<<<"?">>>>),
                       title |-> PyList(<<<<"A", "/", "B", "?">>>>)]] ]

\* The variable template of _download after the replacement of the
\* suggested-name placeholder.
_download_template(template, suggested_filename) ==
    IF Contains(template, SuggestedPattern)
    THEN str_replace(template, SuggestedPattern,
                     str_replace(suggested_filename, <<".", "m", "p", "3">>, <<>>))
    ELSE template

\* The filepath _download moves the song to, for the variable template as
\* it is after the replacement: raised when template_to_filepath raises.
_download_filepath(template, suggested_filename, metadata) ==
    IF template = Getcwd THEN [raised |-> FALSE, filepath |-> suggested_filename]
    ELSE LET expanded == template_to_filepath(template, metadata, FALSE)
         IN  IF expanded.raised THEN [raised |-> TRUE, filepath |-> <<>>]
             ELSE LET filepath == expanded.text \o <<".", "m", "p", "3">>
                      split == os_path_split(filepath)
                  IN  [raised |-> FALSE,
                       filepath |->
                           IF split.tail = <<".", "m", "p", "3">>
                           THEN os_path_join(split.head, <<suggested_filename>>)
                           ELSE filepath]

\* The template arguments of the model; None is the empty template.
DownloadTemplates ==
    { <<>>, SuggestedPattern,
      <<"%", "a", "r", "t", "i", "s", "t", "%", "/">> \o SuggestedPattern,
      <<"%", "t", "i", "t", "l", "e", "%">>,
      <<"x", "/">> }

DownloadInit ==
    /\ dl_args \in [songs : SeqsUpTo(DOMAIN DownloadedSongs, MaxSongs),
                     template : DownloadTemplates]
    /\ dl_remote \in [DOMAIN DownloadedSongs -> {"audio", "CallFailure"}]
    /\ dl_template = IF dl_args.template = <<>> THEN Getcwd ELSE dl_args.template
    /\ dl_songnum = 0
    /\ dl_results = <<>>
    /\ dl_pc = "loop"
    /\ CompareIdle
    /\ FilterIdle
    /\ NormalizeIdle
    /\ TemplateIdle
    /\ GetGoogleSongsIdle
    /\ UploadIdle
    /\ ExcludeIdle
    /\ LoginIdle

\* One turn of the loop of download: _download yields the result of the
\* next song, download logs it and appends it to results.  The log of an
\* error reads songs[songnum] after songnum += 1.
DownloadSong ==
    /\ dl_pc = "loop"
    /\ dl_songnum < Len(dl_args.songs)
    /\ dl_songnum' = dl_songnum + 1
    /\ \E song_id \in {dl_args.songs[dl_songnum + 1]} :
           IF dl_remote[song_id] = "CallFailure"
           THEN /\ dl_template' = dl_template
                /\ IF dl_songnum + 2 > Len(dl_args.songs)
                   THEN /\ dl_pc' = "IndexError"
                        /\ dl_results' = dl_results
                   ELSE /\ dl_pc' = "loop"
                        /\ dl_results' =
                               Append(dl_results,
                                      [downloaded |-> <<>>,
                                       error |-> [s \in {song_id} |-> "CallFailure"]])
           ELSE \E template \in
                       {_download_template(
                            dl_template, DownloadedSongs[song_id].suggested_filename)} :
                \E moved \in
                       {_download_filepath(
                            template, DownloadedSongs[song_id].suggested_filename,
                            DownloadedSongs[song_id].metadata)} :
                    /\ dl_template' = template
                    /\ IF moved.raised
                       THEN /\ dl_pc' = "TypeError"
                            /\ dl_results' = dl_results
                       ELSE /\ dl_pc' = "loop"
                            /\ dl_results' =
                                   Append(dl_results,
                                          [downloaded |->
                                               [s \in {song_id} |-> moved.filepath],
                                           error |-> <<>>])
    /\ UNCHANGED <<dl_args, dl_remote, cmp_vars, flt_vars, nrm_vars, tpl_vars,
                   ggs_vars, upl_vars, exf_vars, lgn_vars>>

\* The loop is over: return results.
DownloadReturn ==
    /\ dl_pc = "loop"
    /\ dl_songnum = Len(dl_args.songs)
    /\ dl_pc' = "returned"
    /\ UNCHANGED <<dl_args, dl_remote, dl_template, dl_songnum, dl_results,
                   cmp_vars, flt_vars, nrm_vars, tpl_vars, ggs_vars, upl_vars,
                   exf_vars, lgn_vars>>

DownloadNext == DownloadSong \/ DownloadReturn

SpecDownload == DownloadInit /\ [][DownloadNext]_vars

-----------------------------------------------------------------------------
(* exclude_filepaths.  A pattern is literal text, and a filepath matches   *)
(* the alternation of the patterns when it contains one of them.           *)

\* The value None.
None == [t |-> "None", s |-> <<>>, l |-> <<>>]

\* cast_to_list(0): an argument that is not a list becomes a list of it.
cast_to_list(arg) == IF arg.t = "list" THEN arg.l ELSE <<arg.s>>

\* exclude_re.search(filepath) for the alternation of the patterns.
exclude_re_search(patterns, filepath) ==
    \E k \in DOMAIN patterns : Contains(filepath, patterns[k])

RECURSIVE exclude_loop(_, _, _, _, _)
\* The for loop of exclude_filepaths from filepaths[i] on.
exclude_loop(filepaths, i, patterns, included, excluded) ==
    IF i > Len(filepaths)
    THEN [raised |-> FALSE, included |-> included, excluded |-> excluded]
    ELSE IF patterns # <<>> /\ exclude_re_search(patterns, filepaths[i])
    THEN exclude_loop(filepaths, i + 1, patterns, included,
                      Append(excluded, filepaths[i]))
    ELSE exclude_loop(filepaths, i + 1, patterns,
                      Append(included, filepaths[i]), excluded)

\* exclude_filepaths: it returns early when exclude_patterns is not None,
\* and joining the patterns of None is a TypeError.
exclude_filepaths(filepaths, exclude_patterns) ==
    IF exclude_patterns # None
    THEN [raised |-> FALSE, included |-> cast_to_list(filepaths),
          excluded |-> <<>>]
    ELSE IF exclude_patterns.t # "list"
    THEN [raised |-> TRUE, included |-> <<>>, excluded |-> <<>>]
    ELSE exclude_loop(cast_to_list(filepaths), 1, exclude_patterns.l, <<>>, <<>>)

\* The filepaths and the patterns of the model.
ExcludePaths == {<<"a", "/", "b">>, <<"b">>, <<"c">>}
ExcludePatterns == {<<"a">>, <<"b">>, <<"z">>}

ExcludeInit ==
    /\ exf_args \in
           [filepaths : {PyList(l) : l \in SeqsUpTo(ExcludePaths, MaxFiles)}
                            \cup {PyStr(path) : path \in ExcludePaths},
            exclude_patterns :
                {PyList(l) : l \in SeqsUpTo(ExcludePatterns, MaxFilters)}
                    \cup {None}]
    /\ exf_pc = "call"
    /\ exf_out = [raised |-> FALSE, included |-> <<>>, excluded |-> <<>>]
    /\ CompareIdle
    /\ FilterIdle
    /\ NormalizeIdle
    /\ TemplateIdle
    /\ GetGoogleSongsIdle
    /\ UploadIdle
    /\ DownloadIdle
    /\ LoginIdle

ExcludeFilepaths ==
    /\ exf_pc = "call"
    /\ exf_out' = exclude_filepaths(exf_args.filepaths, exf_args.exclude_patterns)
    /\ exf_pc' = "done"
    /\ UNCHANGED <<exf_args, cmp_vars, flt_vars, nrm_vars, tpl_vars, ggs_vars,
                   upl_vars, dl_vars, lgn_vars>>

ExcludeNext == ExcludeFilepaths

SpecExclude == ExcludeInit /\ [][ExcludeNext]_vars

-----------------------------------------------------------------------------
(* MusicManagerWrapper.login.  The remote client answers a login attempt   *)
(* with True or False or raises OSError or ValueError, and is              *)
(* authenticated after an attempt that returned True; its OAuth flow       *)
(* returns or raises OSError.                                              *)

OAUTH_FILEPATH == <<"/", "g", "/", "o", "a", "u", "t", "h", ".", "c", "r", "e", "d">>

\* oauth_cred: the credentials file beside OAUTH_FILEPATH.
oauth_cred(oauth_filename) ==
    os_path_join(os_path_split(OAUTH_FILEPATH).head,
                 <<oauth_filename \o <<".", "c", "r", "e", "d">>>>)

\* The outcomes of self.api.login and of self.api.perform_oauth.
LoginOutcomes == {"True", "False", "OSError", "ValueError"}
OauthOutcomes == {"returned", "OSError"}

\* A call of the remote client and its outcome.
ApiCall(method, oauth_credentials, outcome) ==
    [method |-> method, oauth_credentials |-> oauth_credentials,
     outcome |-> outcome]

\* login returning True whatever is_authenticated() says.
login_return_true(is_authenticated) == "True"

\* The end of login: False when the client is not authenticated, or True.
login_return(is_authenticated) ==
    IF ~is_authenticated THEN "False" ELSE "True"

LoginInit ==
    /\ lgn_args \in [oauth_filename : {<<"o", "a", "u", "t", "h">>, <<"m", "y">>},
                      uploader_id : {"None", "00:11:22:33:AA:BB", "00:11"}]
    /\ lgn_authenticated = FALSE
    /\ lgn_calls = <<>>
    /\ lgn_pc = "login"
    /\ lgn_out = "none"
    /\ CompareIdle
    /\ FilterIdle
    /\ NormalizeIdle
    /\ TemplateIdle
    /\ GetGoogleSongsIdle
    /\ UploadIdle
    /\ DownloadIdle
    /\ ExcludeIdle

\* self.api.login(...) with the stored credentials: when it returns False
\* the OAuth flow is next, when it raises OSError or ValueError login
\* returns False.
LoginAttempt ==
    /\ lgn_pc = "login"
    /\ \E outcome \in LoginOutcomes :
           /\ lgn_calls' =
                  Append(lgn_calls,
                         ApiCall("login", oauth_cred(lgn_args.oauth_filename), outcome))
           /\ lgn_authenticated' = (outcome = "True")
           /\ lgn_pc' = CASE outcome = "True" -> "check"
                           [] outcome = "False" -> "oauth"
                           [] OTHER -> "returned"
           /\ lgn_out' = IF outcome \in {"OSError", "ValueError"} THEN "False"
                         ELSE lgn_out
    /\ UNCHANGED <<lgn_args, cmp_vars, flt_vars, nrm_vars, tpl_vars, ggs_vars,
                   upl_vars, dl_vars, exf_vars>>

\* self.api.perform_oauth(...): its OSError is logged, and the second
\* login attempt is next either way.
PerformOauth ==
    /\ lgn_pc = "oauth"
    /\ \E outcome \in OauthOutcomes :
           lgn_calls' =
               Append(lgn_calls,
                      ApiCall("perform_oauth", oauth_cred(lgn_args.oauth_filename),
                              outcome))
    /\ lgn_pc' = "login_again"
    /\ UNCHANGED <<lgn_args, lgn_authenticated, lgn_out, cmp_vars, flt_vars,
                   nrm_vars, tpl_vars, ggs_vars, upl_vars, dl_vars, exf_vars>>

\* The second self.api.login(...): what it returns is not used, when it
\* raises OSError or ValueError login returns False.
LoginAgain ==
    /\ lgn_pc = "login_again"
    /\ \E outcome \in LoginOutcomes :
           /\ lgn_calls' =
                  Append(lgn_calls,
                         ApiCall("login", oauth_cred(lgn_args.oauth_filename), outcome))
           /\ lgn_authenticated' = (outcome = "True")
           /\ lgn_pc' = IF outcome \in {"OSError", "ValueError"} THEN "returned"
                        ELSE "check"
           /\ lgn_out' = IF outcome \in {"OSError", "ValueError"} THEN "False"
                         ELSE lgn_out
    /\ UNCHANGED <<lgn_args, cmp_vars, flt_vars, nrm_vars, tpl_vars, ggs_vars,
                   upl_vars, dl_vars, exf_vars>>

\* self.api.is_authenticated() and the return of login.
LoginReturn ==
    /\ lgn_pc = "check"
    /\ lgn_out' = login_return(lgn_authenticated)
    /\ lgn_pc' = "returned"
    /\ UNCHANGED <<lgn_args, lgn_authenticated, lgn_calls, cmp_vars, flt_vars,
                   nrm_vars, tpl_vars, ggs_vars, upl_vars, dl_vars, exf_vars>>

LoginNext == LoginAttempt \/ PerformOauth \/ LoginAgain \/ LoginReturn

SpecLogin == LoginInit /\ [][LoginNext]_vars

-----------------------------------------------------------------------------
(* Properties of compare_song_collections.                                 *)

\* The call has ended.
CompareDone == cmp_pc = "done"

\* Every song of the collection is a dict or a file whose tags can be read.
AllReadable(collection) ==
    \A i \in DOMAIN collection : collection[i] \notin UnreadableFiles

\* The song dicts and the local files that can be read.
ReadableSongs == GoogleSongs \cup DOMAIN FileTags

\* The identity key of every song that can be read.
IdentityKeys ==
    [song \in ReadableSongs |-> gather_field_values(_normalize_song(song).value)]

\* The identity key of a song that can be read.
IdentityKey(song) == IdentityKeys[song]

\* Some song of the collection has the song's identity key.
KeyAmong(song, collection) ==
    \E j \in DOMAIN collection : IdentityKey(collection[j]) = IdentityKey(song)

\* The stand-in for a comparison field a song lacks or holds empty.
NoValue == [t |-> "none"]

\* The field of a song dict that holds its track number.
TrackField(song) ==
    IF "tracknumber" \in DOMAIN song THEN "tracknumber" ELSE "track_number"

\* The normalized artist, album, title and track-number values of every
\* song that can be read, the track number under one name whatever the
\* song's origin.
Projections ==
    [id \in ReadableSongs |->
        LET song == _normalize_song(id).value
            Value(field) ==
                IF field \in DOMAIN song /\ Truthy(song[field])
                THEN [t |-> "text", s |-> _normalize_metadata(song[field])]
                ELSE NoValue
        IN  [artist |-> Value("artist"), album |-> Value("album"),
             title |-> Value("title"), track |-> Value(TrackField(song))]]

\* A song's normalized artist, album, title and track-number values.
Projection(id) == Projections[id]

\* The comparison fields a song has a value for.
PresentFields(id) == {f \in DOMAIN Projection(id) : Projection(id)[f] # NoValue}

\* The projection with a missing track number taken as "0".
DefaultedProjection(id) ==
    LET p == Projection(id)
    IN  IF p.track = NoValue
        THEN [p EXCEPT !.track =
                 [t |-> "text", s |-> _normalize_metadata(PyStr(<<"0">>))]]
        ELSE p

\* One readable song was compared with one readable song.
ComparedOneToOne ==
    /\ CompareDone
    /\ Len(src_songs) = 1 /\ Len(dst_songs) = 1
    /\ AllReadable(src_songs) /\ AllReadable(dst_songs)

\* C1: for collections of songs that can be read, compare_song_collections
\* returns exactly the subsequence of src_songs (order and duplicates kept)
\* whose identity key is the key of no song of dst_songs; no song of dst_songs
\* and no song outside src_songs is returned.
C1_ReturnsMissingSubsequence ==
    CompareDone =>
        /\ \A i \in DOMAIN cmp_out.value :
               /\ cmp_out.value[i] \in Range(src_songs)
               /\ cmp_out.value[i] \notin Range(dst_songs)
        /\ AllReadable(src_songs) /\ AllReadable(dst_songs) =>
               /\ ~cmp_out.raised
               /\ cmp_out.value =
                      SelectSeq(src_songs,
                                LAMBDA song : ~KeyAmong(song, dst_songs))

\* C1's case: the first of two source songs is in the destination under
\* another representation and is dropped, the second is returned.
C1_Witness ==
    /\ CompareDone /\ ~cmp_out.raised
    /\ Len(src_songs) = 2 /\ Len(dst_songs) = 1
    /\ src_songs[1] # dst_songs[1]
    /\ cmp_out.value = <<src_songs[2]>>

\* C2: a collection of songs that can be read, compared with itself, gives
\* the empty list.
C2_SelfDiffEmpty ==
    CompareDone /\ src_songs = dst_songs /\ AllReadable(src_songs) =>
        ~cmp_out.raised /\ cmp_out.value = <<>>

\* C2's case: a collection of two different songs was compared with itself.
C2_Witness ==
    /\ CompareDone /\ src_songs = dst_songs /\ AllReadable(src_songs)
    /\ Len(src_songs) = 2 /\ src_songs[1] # src_songs[2]
    /\ cmp_out.value = <<>>

\* C3 as claimed: the identity keys of two songs are equal (the source song
\* is not reported missing) if and only if their normalized artist, album,
\* title and track-number values are equal field by field.
C3_KeyEqualIffProjectionEqual ==
    ComparedOneToOne =>
        (cmp_out.value = <<>>
            <=> Projection(src_songs[1]) = Projection(dst_songs[1]))

\* C3 amended: for two songs that have values for the same comparison fields,
\* the identity keys are equal if and only if the normalized values are equal
\* field by field.
C3_KeyEqualIffSameFieldsEqual ==
    ComparedOneToOne
        /\ PresentFields(src_songs[1]) = PresentFields(dst_songs[1]) =>
        (cmp_out.value = <<>>
            <=> Projection(src_songs[1]) = Projection(dst_songs[1]))

\* C3's case: a local file and a Google song dict with the same four
\* normalized values, written differently, are not missing from each other.
C3_Witness ==
    /\ ComparedOneToOne
    /\ IsDict(src_songs[1]) /\ ~IsDict(dst_songs[1])
    /\ PresentFields(src_songs[1]) = {"artist", "album", "title", "track"}
    /\ GoogleSongDicts[src_songs[1]].artist
           # _mutagen_fields_to_single_value(FileTags[dst_songs[1]]).artist
    /\ Projection(src_songs[1]) = Projection(dst_songs[1])
    /\ cmp_out.value = <<>>

\* C4 as claimed: a song without a track number (or with an empty or zero
\* one) is keyed as if its track number were "0", so it is not missing from a
\* collection holding the same song with track number "0", and conversely.
C4_MissingTrackKeyedAsZero ==
    ComparedOneToOne
        /\ DefaultedProjection(src_songs[1]) = DefaultedProjection(dst_songs[1]) =>
        cmp_out.value = <<>>

\* C5 as claimed: with an unreadable file on either side the call returns, and
\* it returns what it would without the unreadable files.
C5_UnreadableFileSkipped ==
    CompareDone =>
        /\ ~cmp_out.raised
        /\ LET CanRead(song) == song \notin UnreadableFiles
               src == SelectSeq(src_songs, CanRead)
               dst == SelectSeq(dst_songs, CanRead)
           IN  cmp_out.value = SelectSeq(src, LAMBDA song : ~KeyAmong(song, dst))

-----------------------------------------------------------------------------
(* Properties of filter_google_songs and filter_local_songs.               *)

\* The filter operation has ended.
FilterDone == flt_pc = "done"

\* The metadata of a song dict or of a local file that can be read.
SongFields(item) ==
    IF IsDict(item) THEN GoogleSongDicts[item] ELSE FileTags[item]

\* The pattern occurs somewhere in the text, letter case ignored.
PatternFound(pattern, text) ==
    \E i \in 0..(Len(text) - Len(pattern)) :
        lower(SubSeq(text, i + 1, i + Len(pattern))) = lower(pattern)

\* The per-rule predicate, for every song that can be read and every rule:
\* the rule's field is present in the song and its pattern is found in the
\* field's value (in some element of a list value).
RulesHeld ==
    [item \in ReadableSongs, rule \in FilterRules \cup FieldRules |->
        LET song == SongFields(item)
        IN  /\ rule[1] \in DOMAIN song
            /\ LET v == song[rule[1]]
               IN  IF v.t = "list"
                   THEN \E k \in DOMAIN v.l : PatternFound(rule[2], v.l[k])
                   ELSE PatternFound(rule[2], v.s)]

\* The per-rule predicate.
RuleHolds(item, rule) == RulesHeld[item, rule]

\* The combinator of a list of rules: every rule holds, or at least one.
Combinator(item, rules, all_rules) ==
    IF all_rules
    THEN \A i \in DOMAIN rules : RuleHolds(item, rules[i])
    ELSE \E i \in DOMAIN rules : RuleHolds(item, rules[i])

\* The number of rules of the list that hold of the song.
RulesHolding(item, rules) ==
    Cardinality({i \in DOMAIN rules : RuleHolds(item, rules[i])})

\* The song passes the include filters and is not caught by the exclude ones.
Kept(item) ==
    /\ include_filters # <<>> => Combinator(item, include_filters, all_includes)
    /\ exclude_filters # <<>> => ~Combinator(item, exclude_filters, all_excludes)

InMatched(item) == item \in Range(flt_out.matched_songs)
InFiltered(item) == item \in Range(flt_out.filtered_songs)

\* The song dicts and readable files among the operation's input.
ReadableInputs == {i \in DOMAIN songs : songs[i] \notin UnreadableFiles}

\* C6: filter_local_songs does not fail on a file mutagen cannot load: the
\* file is in the filtered list and not in the matched list, and every other
\* file of the input, the ones after it too, is classified by the filters.
C6_UnreadableFileFiltered ==
    FilterDone /\ flt_op = "filter_local_songs" =>
        /\ ~flt_out.raised
        /\ Len(flt_out.matched_songs) + Len(flt_out.filtered_songs) = Len(songs)
        /\ \A i \in DOMAIN songs :
               IF songs[i] \in UnreadableFiles
               THEN InFiltered(songs[i]) /\ ~InMatched(songs[i])
               ELSE /\ InMatched(songs[i]) <=> Kept(songs[i])
                    /\ InFiltered(songs[i]) <=> ~Kept(songs[i])

\* C6's case: an unreadable file came first and was filtered, the file after
\* it was checked against an include filter and matched.
C6_Witness ==
    /\ FilterDone /\ flt_op = "filter_local_songs"
    /\ Len(songs) = 2 /\ songs[1] \in UnreadableFiles
    /\ include_filters # <<>>
    /\ flt_out.filtered_songs = <<songs[1]>>
    /\ flt_out.matched_songs = <<songs[2]>>

\* C7: without include and exclude filters filter_google_songs returns every
\* input song as matched, in input order, and nothing as filtered.
C7_NoFiltersAllMatched ==
    FilterDone /\ flt_op = "filter_google_songs"
        /\ include_filters = <<>> /\ exclude_filters = <<>> =>
        /\ ~flt_out.raised
        /\ flt_out.matched_songs = songs
        /\ flt_out.filtered_songs = <<>>

\* C7's case: two different songs were filtered without filters.
C7_Witness ==
    /\ FilterDone /\ flt_op = "filter_google_songs"
    /\ include_filters = <<>> /\ exclude_filters = <<>>
    /\ Len(songs) = 2 /\ songs[1] # songs[2]
    /\ flt_out.matched_songs = songs

\* C8: with include filters only, a song is matched if and only if the
\* include rules hold of it under the combinator (at least one rule, or with
\* all_includes every rule: field present and pattern found in its value by a
\* case-insensitive search); otherwise it is filtered.
C8_IncludeOnly ==
    FilterDone /\ include_filters # <<>> /\ exclude_filters = <<>> =>
        \A i \in ReadableInputs :
            /\ InMatched(songs[i])
                   <=> Combinator(songs[i], include_filters, all_includes)
            /\ InFiltered(songs[i])
                   <=> ~Combinator(songs[i], include_filters, all_includes)

\* C8's case: of two include rules one holds of a song, by a pattern found
\* inside the value in another letter case; under "any" the song is matched,
\* under all_includes it is filtered.
C8_Witness ==
    /\ FilterDone /\ flt_op = "filter_google_songs"
    /\ Len(include_filters) = 2 /\ exclude_filters = <<>>
    /\ Len(songs) = 1
    /\ RulesHolding(songs[1], include_filters) = 1
    /\ \E k \in 1..2 :
           /\ RuleHolds(songs[1], include_filters[k])
           /\ ~MatchesAt(include_filters[k][2],
                         SongFields(songs[1])[include_filters[k][1]].s, 1)
    /\ IF all_includes THEN flt_out.filtered_songs = songs
       ELSE flt_out.matched_songs = songs

\* C9: with exclude filters only, a song is filtered if and only if the
\* exclude rules hold of it under the combinator (at least one rule, or with
\* all_excludes every rule); otherwise it is matched.
C9_ExcludeOnly ==
    FilterDone /\ include_filters = <<>> /\ exclude_filters # <<>> =>
        \A i \in ReadableInputs :
            /\ InFiltered(songs[i])
                   <=> Combinator(songs[i], exclude_filters, all_excludes)
            /\ InMatched(songs[i])
                   <=> ~Combinator(songs[i], exclude_filters, all_excludes)

\* C9's case: under all_excludes, of two songs the one both exclude rules hold
\* of is filtered and the one only one rule holds of is matched.
C9_Witness ==
    /\ FilterDone /\ include_filters = <<>> /\ all_excludes
    /\ Len(exclude_filters) = 2 /\ exclude_filters[1] # exclude_filters[2]
    /\ Len(songs) = 2
    /\ RulesHolding(songs[1], exclude_filters) = 2
    /\ RulesHolding(songs[2], exclude_filters) < 2
    /\ flt_out.filtered_songs = <<songs[1]>>
    /\ flt_out.matched_songs = <<songs[2]>>

\* C10: with include and exclude filters, a song is matched if and only if
\* it satisfies the include combinator and does not satisfy the exclude
\* combinator, whatever all_includes and all_excludes are; otherwise it is
\* filtered.
C10_IncludeAndNotExclude ==
    FilterDone /\ include_filters # <<>> /\ exclude_filters # <<>> =>
        \A i \in ReadableInputs :
            /\ InMatched(songs[i])
                   <=> /\ Combinator(songs[i], include_filters, all_includes)
                       /\ ~Combinator(songs[i], exclude_filters, all_excludes)
            /\ Combinator(songs[i], exclude_filters, all_excludes)
                   => InFiltered(songs[i]) /\ ~InMatched(songs[i])
            /\ InFiltered(songs[i]) <=> ~InMatched(songs[i])

\* C10's case: a song passes every include rule and is caught by a different
\* exclude rule, so it is filtered.
C10_Witness ==
    /\ FilterDone /\ Len(songs) = 1 /\ songs[1] \notin UnreadableFiles
    /\ include_filters # <<>> /\ exclude_filters # <<>>
    /\ Range(include_filters) \cap Range(exclude_filters) = {}
    /\ all_includes /\ all_excludes
    /\ Combinator(songs[1], include_filters, TRUE)
    /\ Combinator(songs[1], exclude_filters, TRUE)
    /\ flt_out.filtered_songs = songs /\ flt_out.matched_songs = <<>>

\* C11: filter_google_songs and filter_local_songs return a partition of the
\* input, for every input and every filter setting: the matched list is the
\* input restricted to the matched items and the filtered list the input
\* restricted to the filtered items, each in input order; no item is in both
\* lists and the two lists together are as long as the input.
C11_Partition ==
    FilterDone =>
        /\ ~flt_out.raised
        /\ flt_out.matched_songs = SelectSeq(songs, InMatched)
        /\ flt_out.filtered_songs = SelectSeq(songs, InFiltered)
        /\ Range(flt_out.matched_songs) \cap Range(flt_out.filtered_songs) = {}
        /\ Len(flt_out.matched_songs) + Len(flt_out.filtered_songs) = Len(songs)

\* C11's case: two different files passed the exclude filters given and were
\* returned as matched in input order.
C11_Witness ==
    /\ FilterDone /\ flt_op = "filter_local_songs"
    /\ exclude_filters # <<>>
    /\ Len(songs) = 2 /\ songs[1] # songs[2]
    /\ flt_out.matched_songs = songs

-----------------------------------------------------------------------------
(* Properties of the filters' field names and list values.                 *)

\* The names a rule's field has in the vocabulary of the song: the album
\* artist is album_artist in a song dict and the albumartist or performer tag
\* in a local file; every other field has one name.
MappedFields(field, item) ==
    IF field \in {"album_artist", "albumartist", "performer"}
    THEN IF IsDict(item) THEN {"album_artist"} ELSE {"albumartist", "performer"}
    ELSE {field}

\* The per-rule predicate with the rule's field taken in the song's vocabulary.
RuleHoldsMapped(item, rule) ==
    \E field \in MappedFields(rule[1], item) :
        /\ field \in DOMAIN SongFields(item)
        /\ LET v == SongFields(item)[field]
           IN  IF v.t = "list"
               THEN \E k \in DOMAIN v.l : PatternFound(rule[2], v.l[k])
               ELSE PatternFound(rule[2], v.s)

CombinatorMapped(item, rules, all_rules) ==
    IF all_rules
    THEN \A i \in DOMAIN rules : RuleHoldsMapped(item, rules[i])
    ELSE \E i \in DOMAIN rules : RuleHoldsMapped(item, rules[i])

\* C12: a rule may name its field in either vocabulary: every song is matched
\* or filtered as by the same rules written in the song's own vocabulary, so
\* a rule on album_artist selects a local file by its albumartist or performer
\* tag and a rule on albumartist selects a song dict by its album_artist.
C12_EitherVocabulary ==
    FilterDone =>
        \A i \in ReadableInputs :
            InMatched(songs[i])
                <=> /\ include_filters # <<>> =>
                           CombinatorMapped(songs[i], include_filters, all_includes)
                    /\ exclude_filters # <<>> =>
                           ~CombinatorMapped(songs[i], exclude_filters, all_excludes)

\* The rule names a field the song does not have.
AbsentField(item, rule) == rule[1] \notin DOMAIN SongFields(item)

\* C13: a rule whose field is not a field of the song raises no error and its
\* predicate is false: under "any" a matched song has an include rule on a
\* field it has whose pattern is found; under all_includes an include rule on
\* an absent field makes the song filtered; a song that passes the include
\* filters is filtered only by an exclude rule on a field it has, never under
\* all_excludes when an exclude rule names an absent field.
C13_AbsentFieldRuleIsFalse ==
    FilterDone =>
        /\ ~flt_out.raised
        /\ \A i \in ReadableInputs :
               LET item == songs[i]
                   held(rules) ==
                       {k \in DOMAIN rules :
                           ~AbsentField(item, rules[k]) /\ RuleHolds(item, rules[k])}
                   absent(rules) ==
                       {k \in DOMAIN rules : AbsentField(item, rules[k])}
               IN  /\ include_filters # <<>> /\ ~all_includes /\ InMatched(item)
                          => held(include_filters) # {}
                   /\ all_includes /\ absent(include_filters) # {}
                          => InFiltered(item) /\ ~InMatched(item)
                   /\ InFiltered(item)
                        /\ (include_filters # <<>>
                               => Combinator(item, include_filters, all_includes))
                          => /\ held(exclude_filters) # {}
                             /\ all_excludes => absent(exclude_filters) = {}

\* C13's case: under all_includes one include rule holds of the file and the
\* other names a field the file does not have, and the file is filtered.
C13_Witness ==
    /\ FilterDone /\ flt_op = "filter_local_songs"
    /\ all_includes /\ Len(include_filters) = 2 /\ exclude_filters = <<>>
    /\ Len(songs) = 1
    /\ RuleHolds(songs[1], include_filters[1])
    /\ AbsentField(songs[1], include_filters[2])
    /\ flt_out.filtered_songs = songs /\ flt_out.matched_songs = <<>>

\* The pattern is found in at least one element of the list.
FoundInList(pattern, elems) ==
    \E k \in DOMAIN elems : PatternFound(pattern, elems[k])

\* C14: a rule on a field whose value is a list holds if and only if its
\* pattern is found in at least one element of the list, and never of an
\* empty list: alone as the include filter it matches exactly the songs with
\* such an element, alone as the exclude filter it filters exactly those.
C14_ListValueAnyElement ==
    FilterDone /\ Len(include_filters) + Len(exclude_filters) = 1 =>
        \A i \in ReadableInputs :
            LET rule == (include_filters \o exclude_filters)[1]
                song == SongFields(songs[i])
            IN  rule[1] \in DOMAIN song /\ song[rule[1]].t = "list" =>
                    LET holds == IF include_filters # <<>>
                                 THEN InMatched(songs[i])
                                 ELSE InFiltered(songs[i])
                    IN  /\ holds <=> FoundInList(rule[2], song[rule[1]].l)
                        /\ song[rule[1]].l = <<>> => ~holds

\* C14's case: the pattern of the only include rule is not found in the
\* first value of the file's tag and is found in the second, and the file is
\* matched.
C14_Witness ==
    /\ FilterDone /\ Len(include_filters) = 1 /\ exclude_filters = <<>>
    /\ Len(songs) = 1 /\ songs[1] \in ReadableSongs \ GoogleSongs
    /\ LET rule == include_filters[1]
           song == SongFields(songs[1])
       IN  /\ rule[1] \in DOMAIN song
           /\ Len(song[rule[1]].l) = 2
           /\ ~PatternFound(rule[2], song[rule[1]].l[1])
           /\ PatternFound(rule[2], song[rule[1]].l[2])
    /\ flt_out.matched_songs = songs

-----------------------------------------------------------------------------
(* Properties of _normalize_metadata.                                      *)

\* C15: normalization is idempotent: normalizing a normalized value gives the
\* same value again.
C15_Idempotent ==
    nrm_pc = "twice" => nrm_twice = nrm_once

\* The text is a number: one digit or more.
IsNumber(text) == text # <<>> /\ \A i \in DOMAIN text : text[i] \in Digits

\* The positions p of the value at which it reads "0...0N/T": a positive
\* number, with or without leading zeros, before p and a total after it.
TrackOverTotal ==
    {p \in DOMAIN nrm_metadata :
        /\ nrm_metadata[p] = "/"
        /\ IsNumber(SubSeq(nrm_metadata, 1, p - 1))
        /\ \E i \in 1..(p - 1) : nrm_metadata[i] # "0"
        /\ IsNumber(SubSeq(nrm_metadata, p + 1, Len(nrm_metadata)))}

\* The number N written before position p, without its leading zeros.
BareNumber(p) ==
    SubSeq(nrm_metadata, SpanEnd(nrm_metadata, 1, {"0"}), p - 1)

\* C16: a track number with leading zeros and a "/<total>" suffix normalizes
\* to the same string as the bare number N, which normalizes to itself.
C16_TrackNumberAsBareNumber ==
    nrm_pc # "call" =>
        \A p \in TrackOverTotal :
            /\ nrm_once = _normalize_metadata(PyStr(BareNumber(p)))
            /\ nrm_once = BareNumber(p)

\* C16's case: a number of two digits with a leading zero and a total was
\* normalized to the number.
C16_Witness ==
    /\ nrm_pc = "once"
    /\ \E p \in TrackOverTotal :
           /\ nrm_metadata[1] = "0"
           /\ Len(BareNumber(p)) = 2
           /\ nrm_once = BareNumber(p)

\* The runs of digits of the value that stand after a "/" and before more
\* text: <<first, last>> positions of each.
DigitsBeforeMoreText ==
    {<<k, m - 1>> : k \in {SpanEnd(nrm_metadata, p + 1, Whitespace) :
                               p \in {q \in DOMAIN nrm_metadata :
                                          nrm_metadata[q] = "/"}},
                    m \in 1..Len(nrm_metadata)} \cap
    {run \in (1..Len(nrm_metadata)) \X (1..Len(nrm_metadata)) :
        /\ run[1] <= run[2]
        /\ run[2] + 1 = SpanEnd(nrm_metadata, run[1], Digits)
        /\ run[2] < Len(nrm_metadata)
        /\ nrm_metadata[run[2] + 1] \notin Whitespace \cup {"/", "."}}

\* C30: a "/<digits>" that is followed by more text is not removed as a
\* unit: its digits stay in the normalized string.
C30_InnerDigitsStay ==
    nrm_pc # "call" =>
        \A run \in DigitsBeforeMoreText :
            Contains(nrm_once, SubSeq(nrm_metadata, run[1], run[2]))

-----------------------------------------------------------------------------
(* Properties of template_to_filepath.                                     *)

\* template_to_filepath has been called, and its first call returned.
TemplateCalled == Len(tpl_out) >= 1
TemplateReturned == TemplateCalled /\ ~tpl_out[1].raised

\* The fields of the metadata passed to the first call, one value each.
GivenFields ==
    IF tpl_is_dict THEN tpl_given ELSE _mutagen_fields_to_single_value(tpl_given)

RECURSIVE SegmentsFrom(_, _)
\* The segments of the path from index i on: its runs of characters other
\* than the separator.
SegmentsFrom(path, i) ==
    IF i > Len(path) THEN <<>>
    ELSE IF path[i] = "/" THEN SegmentsFrom(path, i + 1)
    ELSE LET j == CHOOSE j \in (i + 1)..(Len(path) + 1) :
                      /\ \A k \in i..(j - 1) : path[k] # "/"
                      /\ j = Len(path) + 1 \/ path[j] = "/"
         IN  <<SubSeq(path, i, j - 1)>> \o SegmentsFrom(path, j)

SegmentsOf(path) == SegmentsFrom(path, 1)

\* The characters of the illegal-character table.
IllegalCharacters ==
    {CHARACTER_REPLACEMENTS[k][1] : k \in DOMAIN CHARACTER_REPLACEMENTS}

\* The text with each illegal character replaced by its table entry.
Sanitized(text) ==
    Joined([i \in DOMAIN text |->
               IF text[i] \in IllegalCharacters
               THEN LET k == CHOOSE k \in DOMAIN CHARACTER_REPLACEMENTS :
                                 CHARACTER_REPLACEMENTS[k][1] = text[i]
                    IN  CHARACTER_REPLACEMENTS[k][2]
               ELSE <<text[i]>>])

\* The number N of a track-number value "N/Total" or "N".
TrackNumberOf(value) == SubSeq(value, 1, SpanEnd(value, 1, Digits) - 1)

\* The fallback name: the padded track number, a space and the title; "00"
\* stands for an absent track number and nothing for an absent title.
FallbackName ==
    (IF "tracknumber" \in DOMAIN GivenFields /\ "title" \in DOMAIN GivenFields
     THEN zfill(TrackNumberOf(str(GivenFields["tracknumber"])), 2)
     ELSE <<"0", "0">>)
        \o <<" ">>
        \o (IF "title" \in DOMAIN GivenFields THEN str(GivenFields["title"]) ELSE <<>>)

\* The text the placeholder of the k-th template pattern stands for.
PlaceholderText(k) ==
    LET value == str(GivenFields[TEMPLATE_PATTERNS[k][2]])
    IN  IF TEMPLATE_PATTERNS[k][2] = "tracknumber"
        THEN zfill(TrackNumberOf(value), 2)
        ELSE value

RECURSIVE SubstitutedFrom(_, _)
\* The segment with the placeholders of the template patterns from the k-th
\* on replaced by their sanitized texts, where the metadata has the field.
SubstitutedFrom(segment, k) ==
    IF k > Len(TEMPLATE_PATTERNS) THEN segment
    ELSE IF TEMPLATE_PATTERNS[k][2] \in DOMAIN GivenFields
    THEN SubstitutedFrom(
             str_replace(segment, TEMPLATE_PATTERNS[k][1],
                         Sanitized(PlaceholderText(k))),
             k + 1)
    ELSE SubstitutedFrom(segment, k + 1)

\* The segment a template segment is expanded to.
ExpandedSegment(segment) ==
    SubstitutedFrom(str_replace(segment, SuggestedPattern, Sanitized(FallbackName)), 1)

\* C17: substituted values never create or remove path segments: the result
\* has as many segments as the template, and each is the template's segment
\* with its placeholders replaced by their values, every illegal character of
\* a value replaced by its table entry.
C17_SegmentsKept ==
    TemplateReturned /\ tpl_template # Getcwd =>
        LET result == SegmentsOf(tpl_out[1].value)
            template == SegmentsOf(tpl_template)
        IN  /\ Len(result) = Len(template)
            /\ \A k \in DOMAIN result : result[k] = ExpandedSegment(template[k])

\* C18: every path returned is sanitized: no segment of the result has a
\* character of the illegal-character table, the fallback name included.
C18_ResultSanitized ==
    TemplateReturned =>
        LET result == SegmentsOf(tpl_out[1].value)
        IN  \A k \in DOMAIN result :
                \A i \in DOMAIN result[k] : result[k][i] \notin IllegalCharacters

\* The template is expanded segment by segment, not answered by the
\* fallback name.
TemplateExpanded == tpl_template # Getcwd /\ tpl_template # SuggestedPattern

\* The template patterns whose placeholder occurs in the template, by whether
\* the metadata has the field behind them.
PatternsMissing ==
    {k \in DOMAIN TEMPLATE_PATTERNS :
        /\ Contains(tpl_template, TEMPLATE_PATTERNS[k][1])
        /\ TEMPLATE_PATTERNS[k][2] \notin DOMAIN GivenFields}
PatternsPresent ==
    {k \in DOMAIN TEMPLATE_PATTERNS :
        /\ Contains(tpl_template, TEMPLATE_PATTERNS[k][1])
        /\ TEMPLATE_PATTERNS[k][2] \in DOMAIN GivenFields}

\* C19: when the metadata lacks the field behind a placeholder of the
\* template, the call raises no error, the placeholder stays in the result
\* as literal text, and no placeholder whose field is present stays.
C19_MissingFieldLeftLiteral ==
    TemplateCalled /\ TemplateExpanded /\ PatternsMissing # {} =>
        /\ ~tpl_out[1].raised
        /\ \A k \in PatternsMissing :
               Contains(tpl_out[1].value, TEMPLATE_PATTERNS[k][1])
        /\ \A k \in PatternsPresent :
               ~Contains(tpl_out[1].value, TEMPLATE_PATTERNS[k][1])

\* '%track%'
TrackPattern == TEMPLATE_PATTERNS[3][1]

\* C20: a track-number placeholder is replaced by the track number padded
\* with zeros to two digits, for a value "N/Total" and for a plain value "N":
\* the call raises no error, and the template '%track%' gives N padded.
C20_TrackNumberPadded ==
    TemplateCalled /\ TemplateExpanded
        /\ Contains(tpl_template, TrackPattern)
        /\ "tracknumber" \in DOMAIN GivenFields =>
        /\ ~tpl_out[1].raised
        /\ tpl_template = TrackPattern =>
               tpl_out[1].value
                   = zfill(TrackNumberOf(str(GivenFields["tracknumber"])), 2)

\* C21: for the empty template, the unset template (the working directory)
\* and the template '%suggested%' the call returns the fallback name: the
\* track number padded to two digits, a space and the title when both exist,
\* "00 <title>" without a track number and "00 " without a title.
C21_FallbackName ==
    TemplateCalled /\ tpl_template \in {<<>>, Getcwd, SuggestedPattern} =>
        /\ ~tpl_out[1].raised
        /\ tpl_out[1].value = FallbackName

\* C22: template_to_filepath leaves the caller's metadata as it was passed,
\* and every call with the same template and metadata object has the same
\* outcome.
C22_Pure ==
    /\ tpl_metadata = tpl_given
    /\ \A i, j \in DOMAIN tpl_out : tpl_out[i] = tpl_out[j]

-----------------------------------------------------------------------------
(* Properties of MusicManagerWrapper.get_google_songs.                     *)

\* C23: get_google_songs with uploaded and purchased both false raises
\* ValueError before any request to the remote client; with one of them true
\* it does not raise ValueError.
C23_ConfigurationError ==
    ggs_pc = "done" =>
        IF ~ggs_args.uploaded /\ ~ggs_args.purchased
        THEN ggs_out.error = "ValueError" /\ ggs_out.requests = <<>>
        ELSE ggs_out.error # "ValueError"

\* C23's case: the call with uploaded and purchased false, on a library with
\* songs, raised ValueError and made no request.
C23_Witness ==
    /\ ggs_pc = "done"
    /\ ~ggs_args.uploaded /\ ~ggs_args.purchased
    /\ ggs_library.uploaded # <<>> /\ ggs_library.fails = "none"
    /\ ggs_out.error = "ValueError" /\ ggs_out.requests = <<>>

-----------------------------------------------------------------------------
(* Properties of MusicManagerWrapper.upload.                               *)

\* The 'result' of the result dict of a file after what the remote client
\* answered for it.
ReportedResult(answer) ==
    IF answer.kind = "CallFailure" THEN "error" ELSE answer.kind

\* C24: upload returns one result dict per input filepath, in input order,
\* whose 'result' is 'uploaded', 'matched', 'error' or 'not_uploaded' after
\* what the remote client answered for that file, for every sequence of
\* answers; no file stops the files after it.
C24_OneResultPerFile ==
    /\ upl_pc \in {"idle", "loop", "returned"}
    /\ upl_pc = "returned" =>
           /\ Len(upl_results) = Len(upl_args.filepaths)
           /\ \A i \in DOMAIN upl_results :
                  /\ upl_results[i].filepath = upl_args.filepaths[i]
                  /\ upl_results[i].result =
                         ReportedResult(upl_remote[upl_args.filepaths[i]])

\* The files upload removed.
RemovedFiles == UploadFiles \ upl_files

\* The remote client answered the upload of the file with uploaded, matched
\* or a not_uploaded reason that says the song already exists.
SucceededOrExists(answer) ==
    \/ answer.kind \in {"uploaded", "matched"}
    \/ /\ answer.kind = "not_uploaded"
       /\ \E k \in DOMAIN exist_strings :
              Contains(answer.message, <<exist_strings[k]>>)

\* C27: upload removes a file only if delete_on_success is true and the
\* file's outcome was uploaded, matched or already-exists: a file whose
\* upload raised CallFailure or was rejected for another reason is never
\* removed, and nothing is removed with delete_on_success false.
C27_RemovedOnlyOnSuccess ==
    upl_pc # "idle" =>
        \A f \in RemovedFiles :
            /\ upl_args.delete_on_success
            /\ SucceededOrExists(upl_remote[f])
            /\ \E i \in 1..upl_filenum : upl_args.filepaths[i] = f

\* C27's case: upload with delete_on_success removed one file and kept a
\* file whose upload raised CallFailure.
C27_Witness ==
    /\ upl_pc = "returned"
    /\ upl_args.delete_on_success
    /\ \E i, j \in DOMAIN upl_results :
           /\ upl_results[i].result = "error"
           /\ upl_results[i].filepath \in upl_files
           /\ upl_results[j].result \in {"uploaded", "not_uploaded"}
           /\ upl_results[j].filepath \in RemovedFiles

-----------------------------------------------------------------------------
(* Properties of MusicManagerWrapper.download.                             *)

\* C25: download returns one (downloaded, error) result per input song, in
\* input order: a remote failure on a song, the last included, is that
\* song's error entry, and the songs after it are downloaded.
C25_OneResultPerSong ==
    /\ dl_pc \in {"idle", "loop", "returned"}
    /\ dl_pc = "returned" =>
           /\ Len(dl_results) = Len(dl_args.songs)
           /\ \A i \in DOMAIN dl_results :
                  IF dl_remote[dl_args.songs[i]] = "CallFailure"
                  THEN /\ dl_results[i].downloaded = <<>>
                       /\ DOMAIN dl_results[i].error = {dl_args.songs[i]}
                  ELSE /\ dl_results[i].error = <<>>
                       /\ DOMAIN dl_results[i].downloaded = {dl_args.songs[i]}

\* The path download makes from the caller's template for one song.
PathFromCallersTemplate(song_id) ==
    _download_filepath(
        _download_template(dl_args.template,
                           DownloadedSongs[song_id].suggested_filename),
        DownloadedSongs[song_id].suggested_filename,
        DownloadedSongs[song_id].metadata).filepath

\* C29: with a template that contains the suggested-name placeholder, the
\* path of each downloaded song is the one the caller's template gives with
\* that song's own suggested filename.
C29_OwnSuggestedFilename ==
    dl_pc # "idle" /\ Contains(dl_args.template, SuggestedPattern) =>
        \A i \in DOMAIN dl_results :
            \A s \in DOMAIN dl_results[i].downloaded :
                dl_results[i].downloaded[s] = PathFromCallersTemplate(s)

-----------------------------------------------------------------------------
(* Properties of exclude_filepaths.                                        *)

\* The filepath matches one of the patterns given to exclude_filepaths.
MatchesAPattern(filepath) ==
    /\ exf_args.exclude_patterns # None
    /\ exclude_re_search(exf_args.exclude_patterns.l, filepath)

NotMatchesAPattern(filepath) == ~MatchesAPattern(filepath)

\* C26: exclude_filepaths returns (included, excluded), where excluded are
\* the filepaths that match one of the patterns and included the others;
\* without patterns every filepath is included, without error.
C26_ExcludedIffMatches ==
    exf_pc = "done" =>
        /\ ~exf_out.raised
        /\ exf_out.excluded =
               SelectSeq(cast_to_list(exf_args.filepaths), MatchesAPattern)
        /\ exf_out.included =
               SelectSeq(cast_to_list(exf_args.filepaths), NotMatchesAPattern)

-----------------------------------------------------------------------------
(* Properties of MusicManagerWrapper.login.                                *)

\* The positions of the calls of the method in the calls login made.
CallsOf(method) == {i \in DOMAIN lgn_calls : lgn_calls[i].method = method}

\* C28: login returns True exactly when the client is authenticated at the
\* end of the call, and False when a login attempt raised OSError or
\* ValueError; the OAuth flow runs only after a first login attempt that
\* failed, and exactly one more login attempt follows it.
C28_Login ==
    /\ lgn_pc = "returned" =>
           /\ lgn_out \in {"True", "False"}
           /\ lgn_out = "True" <=> lgn_authenticated
           /\ (\E i \in CallsOf("login") :
                   lgn_calls[i].outcome \in {"OSError", "ValueError"})
                  => lgn_out = "False"
           /\ \A i \in CallsOf("perform_oauth") :
                  Cardinality({j \in CallsOf("login") : j > i}) = 1
    /\ lgn_pc # "returned" => lgn_out = "none"
    /\ \A i \in CallsOf("perform_oauth") :
           /\ i = 2
           /\ lgn_calls[1] = ApiCall("login", oauth_cred(lgn_args.oauth_filename),
                                      "False")
           /\ Cardinality({j \in CallsOf("login") : j > i}) <= 1
    /\ lgn_pc = "login_again" <=>
           /\ CallsOf("perform_oauth") # {}
           /\ \A i \in CallsOf("perform_oauth") :
                  {j \in CallsOf("login") : j > i} = {}

\* C28's case: login ran the OAuth flow after a first attempt that failed,
\* made the second attempt and returned True with the client authenticated.
C28_Witness ==
    /\ lgn_pc = "returned"
    /\ lgn_out = "True" /\ lgn_authenticated
    /\ Len(lgn_calls) = 3
    /\ lgn_calls[1].outcome = "False"
    /\ lgn_calls[2] = ApiCall("perform_oauth", oauth_cred(lgn_args.oauth_filename),
                               "OSError")
    /\ lgn_calls[3].method = "login"

=============================================================================
